---- MODULE Spec2Model ----
(***************************************************************************)
(* The Elo rating engine of velo-research: ratings/Velo.py with            *)
(* ratings/entities.py (the "Velo" system) and ratings/CyclElo.py with     *)
(* ratings/Rider.py and ratings/Race.py (the "CyclElo" system).            *)
(*                                                                         *)
(* Numbers.  Python floats are modelled by exact arithmetic on a lattice:  *)
(*   - a comparison weight is a fixed-point number in units of 1/WeightDen *)
(*     (np.power and np.sqrt are irrational, so their values are rounded   *)
(*     to that unit in the tables PowTable15, PowTable18 and SqrtTable);   *)
(*   - a win probability is q1/(q1+q2) computed exactly, in units of       *)
(*     1/ProbDen, where q = 10^(rating/400) is quantised to a power of two *)
(*     (10^(r/400) doubles every 400*log10(2) = 120.4 rating points);      *)
(*   - a rating or a pending delta is an integer in units of 1/Scale.      *)
(* From the weight on, every product, sum and quotient below is exact.     *)
(*                                                                         *)
(* Optional values.  None is <<>> and a present value v is <<v>>; a date   *)
(* is <<year, month, day>>; the rating-history keyword 'newseason' is      *)
(* <<"newseason">>.                                                        *)
(*                                                                         *)
(* Exceptions.  A call that raises leaves the object as the statements     *)
(* before the raise made it; err records what the last call raised.        *)
(***************************************************************************)
EXTENDS Integers, Sequences, FiniteSets, TLC

VARIABLES
    impl,         \* which rating system this instance is: "Velo" or "CyclElo"
    riders,       \* self.riders: name -> Rider object (its fields)
    races,        \* self.races: the race log
    rating_data,  \* self.rating_data: the saved time series
    op,           \* the operation called last
    args,         \* the arguments of that call
    err,          \* the exception that call raised, or "none"
    h2hs,         \* the head-to-heads run by the last simulate_race, in order
    nops,         \* number of calls made so far
    nseasons,     \* number of new_season calls made so far
    out,          \* what the last call returned or printed (None if nothing)
    frame,        \* the local variables of a call that is running step by step
    config        \* the constructor arguments the instance keeps (self.decay_alpha, ...)

vars == <<impl, riders, races, rating_data, op, args, err, h2hs, nops, nseasons, out, frame, config>>

(***************************************************************************)
(* Bounds of the model.                                                    *)
(***************************************************************************)
MaxOps == 3
MaxSeasons == 1
MaxPlace == 3

(***************************************************************************)
(* Program constants.                                                      *)
(***************************************************************************)
DEFAULT_INITIAL_RATING == 1500
ELO_Q_EXPONENT_DENOM == 400
EntitiesSentinelYear == 1900
RiderSentinelYear == 1800
AlphaDefault == 15    \* alpha = 1.5, in tenths
BetaDefault == 18     \* beta = 1.8, in tenths

None == <<>>
Some(v) == <<v>>
NEW_SEASON_RATING_KEYWORD == <<"newseason">>

\* no call is running step by step
NoFrame == [pc |-> "none"]

ELO_Q_BASE == 10

\* the constructor's default arguments: Velo(), VGlicko(); CyclElo() takes and
\* keeps none.  Exponents in tenths.
ConstructorDefaults(system) ==
    IF system = "Velo"
    THEN [decay_alpha |-> AlphaDefault, decay_beta |-> BetaDefault,
          elo_q_base |-> ELO_Q_BASE, elo_q_exponent_denom |-> ELO_Q_EXPONENT_DENOM]
    ELSE IF system = "VGlicko"
    THEN [decay_alpha |-> 16, decay_beta |-> 15,
          elo_q_base |-> ELO_Q_BASE, elo_q_exponent_denom |-> ELO_Q_EXPONENT_DENOM]
    ELSE [none |-> TRUE]

(***************************************************************************)
(* The number lattice.                                                     *)
(***************************************************************************)
WeightDen == 10 * 10
ProbDen == 2 * 3 * 5
RegDen == 2 * 5
RECURSIVE IntPow(_, _)
IntPow(b, n) == IF n = 0 THEN 1 ELSE b * IntPow(b, n - 1)
RegUnit == IntPow(RegDen, MaxSeasons)
Scale == WeightDen * ProbDen * RegUnit
InitialRating == DEFAULT_INITIAL_RATING * Scale

ToF(n) == n * WeightDen
FMul(x, y) == (x * y) \div WeightDen
FDiv(x, y) == (x * WeightDen) \div y

\* the floats that are no number of the lattice: inf, -inf and nan, as numpy
\* yields them (with a RuntimeWarning, no exception) for x / 0.0, 0 / 0.0 and
\* the fractional power of a negative base
PosInf == 1024 * 1024 * 1024
NegInf == 0 - PosInf
NaN == PosInf + 1
IsFinite(x) == x \notin {PosInf, NegInf, NaN}
FSign(x) ==
    IF x = PosInf THEN 1 ELSE IF x = NegInf THEN 0 - 1
    ELSE IF x > 0 THEN 1 ELSE IF x < 0 THEN 0 - 1 ELSE 0
\* x + y of two floats
FAdd(x, y) ==
    IF x = NaN \/ y = NaN THEN NaN
    ELSE IF IsFinite(x) /\ IsFinite(y) THEN x + y
    ELSE IF IsFinite(y) THEN x
    ELSE IF IsFinite(x) \/ x = y THEN y
    ELSE NaN

PowTable15 == <<100, 283, 520, 800, 1118, 1470>>
PowTable18 == <<100, 348, 722, 1213, 1812, 2516>>
SqrtTable == <<100, 141, 173, 200, 224, 245>>
\* x ** e for an exponent e in tenths: 1.5, 1.8, 0.5 and 1
Pow(x, e) ==
    IF e = AlphaDefault THEN PowTable15[x]
    ELSE IF e = BetaDefault THEN PowTable18[x]
    ELSE IF e = 5 THEN SqrtTable[x]
    ELSE ToF(x)
Sqrt(x) == SqrtTable[x]

(***************************************************************************)
(* decay_funcs.py                                                          *)
(***************************************************************************)
\* a weight that divides by p1 and by the gap where k_decay multiplies
KDecayInverted(K, p1, p2, alpha, beta) ==
    LET out1 == FMul(ToF(K), FDiv(Pow(p1, alpha), ToF(p1)))
    IN  FMul(out1, FDiv(Pow(p2 - p1, beta), ToF(p2 - p1)))

\* x / (x ** e) for a numpy integer x: 0 / 0.0 is nan, and so is the power of a
\* negative base unless the exponent is 1
OverPow(x, e) ==
    IF x = 0 THEN NaN
    ELSE IF x < 0 THEN (IF e \in {AlphaDefault, BetaDefault, 5} THEN NaN ELSE ToF(1))
    ELSE FDiv(ToF(x), Pow(x, e))

KDecay(K, p1, p2, alpha, beta) ==
    IF NaN \in {OverPow(p1, alpha), OverPow(p2 - p1, beta)}
    THEN NaN
    ELSE LET out1 == FMul(ToF(K), OverPow(p1, alpha))
         IN  FMul(out1, OverPow(p2 - p1, beta))

\* np.sqrt(0) is 0.0 and race_weight / 0.0 is inf; k / 0 is inf as well
Linear2(K, p1, p2) ==
    LET k == IF p1 < 0 THEN NaN
             ELSE IF p1 > 0 THEN FDiv(ToF(K), Sqrt(p1))
             ELSE IF K > 0 THEN PosInf ELSE IF K < 0 THEN NegInf ELSE NaN
        gap == p2 - p1
    IN  IF k = NaN \/ (gap = 0 /\ k = 0) THEN NaN
        ELSE IF IsFinite(k) /\ gap > 0 THEN FDiv(k, ToF(gap))
        ELSE IF IsFinite(k) /\ gap < 0 THEN 0 - FDiv(k, ToF(0 - gap))
        ELSE IF FSign(k) * (IF gap < 0 THEN 0 - 1 ELSE 1) > 0 THEN PosInf
        ELSE NegInf

(***************************************************************************)
(* entities.py / Rider.py / Race.py                                        *)
(***************************************************************************)
MakeRace(name, weight, datestamp, place) ==
    IF impl # "CyclElo"
    THEN [name |-> name, weight |-> weight, datestamp |-> datestamp, place |-> place]
    ELSE [name |-> name, weight |-> weight, datestamp |-> datestamp, place |-> place,
          classification |-> None]

RaceEq(r1, r2) == r1.name = r2.name /\ r1.datestamp = r2.datestamp

\* Rider(name, initial_rating, age = age): entities.Rider in Velo, Rider.Rider in
\* CyclElo (the name is the key under which the system keeps the object)
Rider(initial_rating, age) ==
    IF impl = "Velo"
    THEN [rating |-> initial_rating, age |-> age, delta |-> 0,
          rating_history |-> <<<<initial_rating, NEW_SEASON_RATING_KEYWORD>>>>,
          race_history |-> <<>>,
          most_recent_active_year |-> EntitiesSentinelYear]
    ELSE [rating |-> initial_rating, season_wins |-> 0, season_losses |-> 0,
          age |-> age, delta |-> 0,
          rating_history |-> <<<<initial_rating, NEW_SEASON_RATING_KEYWORD>>>>,
          race_history |-> <<>>,
          most_recent_active_year |-> RiderSentinelYear]

AddNewRace(r, race_name, race_weight, race_date, place) ==
    LET new_race == MakeRace(race_name, Some(race_weight), race_date, Some(place))
    IN  IF \E k \in 1..Len(r.race_history) : RaceEq(new_race, r.race_history[k])
        THEN r
        ELSE [r EXCEPT !.race_history = Append(@, new_race)]

\* a head-to-head that writes the rating at once instead of the pending delta
UpdateDeltaIntoRating(r, d) == [r EXCEPT !.rating = @ + d]

UpdateDelta(r, d) == [r EXCEPT !.delta = FAdd(@, d)]

\* a resolve that forgets to reset the pending delta
ResolveDeltaKeepsDelta(r, datestamp) ==
    LET rating == r.rating + r.delta
    IN  [r EXCEPT !.rating = rating,
                  !.rating_history = Append(@, <<rating, datestamp>>)]

ResolveDelta(r, datestamp) ==
    IF impl = "Velo"
    THEN LET year == IF r.delta # 0 THEN datestamp[1] ELSE r.most_recent_active_year
             rating == FAdd(r.rating, r.delta)
         IN  [r EXCEPT !.most_recent_active_year = year,
                       !.rating = rating,
                       !.delta = 0,
                       !.rating_history = Append(@, <<rating, datestamp>>)]
    ELSE LET rating == FAdd(r.rating, r.delta)
         IN  [r EXCEPT !.rating = rating,
                       !.delta = 0,
                       !.rating_history = Append(@, <<rating, datestamp>>),
                       !.most_recent_active_year = datestamp[1]]

\* a regression with the two weights exchanged
RegressedRatingSwapped(rating, weight) ==
    ((InitialRating \div RegDen) * (RegDen - weight)) + ((rating \div RegDen) * weight)

\* (DEFAULT_INITIAL_RATING * weight) + (rating * (1 - weight)); weight is in
\* tenths (4 is 0.4)
RegressedRating(rating, weight) ==
    ((InitialRating \div RegDen) * weight) + ((rating \div RegDen) * (RegDen - weight))

\* entities.Rider.new_season(year, weight)
EntitiesNewSeason(r, year, weight) ==
    LET new_rating == RegressedRating(r.rating, weight)
    IN  [r EXCEPT !.race_history = Append(@, MakeRace("New Season", None, None, None)),
                  !.rating = new_rating,
                  !.rating_history = Append(@, <<new_rating, <<year, 1, 1>>>>)]

\* Rider.Rider.new_season(weight)
RiderNewSeason(r, weight) ==
    LET new_rating == RegressedRating(r.rating, weight)
    IN  [r EXCEPT !.race_history = Append(@, MakeRace("New Season", None, None, None)),
                  !.rating = new_rating,
                  !.rating_history = Append(@, <<new_rating, NEW_SEASON_RATING_KEYWORD>>)]

IncrementWins(r) == [r EXCEPT !.season_wins = @ + 1]
IncrementLosses(r) == [r EXCEPT !.season_losses = @ + 1]

(***************************************************************************)
(* Velo.py / CyclElo.py: module-level helpers                              *)
(***************************************************************************)
\* np.power(ELO_Q_BASE, rating / ELO_Q_EXPONENT_DENOM) with ELO_Q_BASE = 10,
\* quantised to a power of two (it doubles every ELO_Q_EXPONENT_DENOM *
\* log10(2) = 0.301 * ELO_Q_EXPONENT_DENOM rating points) and saturated one
\* doubling below and above the initial rating.
QStep == (ELO_Q_EXPONENT_DENOM * 301) \div 1000
QValue(rating) ==
    LET mid == InitialRating \div (QStep * Scale)
        b == rating \div (QStep * Scale)
    IN  IF b < mid THEN 1 ELSE IF b > mid THEN 4 ELSE 2

\* in units of 1/ProbDen
GetWinLossProbabilities(rating1, rating2) ==
    LET rider1_q == QValue(rating1)
        rider2_q == QValue(rating2)
    IN  << (rider1_q * ProbDen) \div (rider1_q + rider2_q),
           (rider2_q * ProbDen) \div (rider1_q + rider2_q) >>

\* (rider1_time - rider2_time) * time_gap_multiplier is evaluated outside the
\* try block: with the multiplier None it raises TypeError.  Inside the try
\* block the name math is not bound in either module, so the except branch
\* returns 1.
GetMargvictMult(rider1_time, rider2_time, time_gap_multiplier) ==
    IF time_gap_multiplier = None
    THEN [raised |-> TRUE, value |-> 0]
    ELSE [raised |-> FALSE, value |-> 1]

Rider1Score(rider1_time, rider2_time) == IF rider1_time <= rider2_time THEN 1 ELSE 0
Rider2Score(rider1_time, rider2_time) == IF rider2_time < rider1_time THEN 1 ELSE 0

\* weight * margin * (score - p), in rating units
EloDelta(matchup_weight, margvict_mult, score, p) ==
    LET surprise == margvict_mult * ((score * ProbDen) - p) * RegUnit
    IN  IF IsFinite(matchup_weight) THEN matchup_weight * surprise
        ELSE IF matchup_weight = NaN \/ surprise = 0 THEN NaN
        ELSE IF FSign(matchup_weight) * FSign(surprise) > 0 THEN PosInf
        ELSE NegInf

(***************************************************************************)
(* find_rider / add_new_rider                                              *)
(***************************************************************************)
AddNewRider(rs, name, age) ==
    IF name \in DOMAIN rs
    THEN [rs EXCEPT ![name].age = age]
    ELSE (name :> Rider(InitialRating, age)) @@ rs

(***************************************************************************)
(* h2h: the riders after the call, what it raised, and a record of the     *)
(* call (its arguments, the scores it set, the deltas it added).           *)
(***************************************************************************)
H2H(rs, rider1, rider1_time, rider2, rider2_time, matchup_weight, timegap_multiplier) ==
    LET p == GetWinLossProbabilities(rs[rider1].rating, rs[rider2].rating)
        rider1_score == Rider1Score(rider1_time, rider2_time)
        rider2_score == Rider2Score(rider1_time, rider2_time)
        mv == GetMargvictMult(rider1_time, rider2_time, timegap_multiplier)
        rider1_delta == EloDelta(matchup_weight, mv.value, rider1_score, p[1])
        rider2_delta == EloDelta(matchup_weight, mv.value, rider2_score, p[2])
        call == [rider1 |-> rider1, rider2 |-> rider2,
                 rider1_time |-> rider1_time, rider2_time |-> rider2_time,
                 rider1_rating |-> rs[rider1].rating, rider2_rating |-> rs[rider2].rating,
                 matchup_weight |-> matchup_weight,
                 rider1_score |-> rider1_score, rider2_score |-> rider2_score]
        updated == [rs EXCEPT ![rider1] = UpdateDelta(@, rider1_delta),
                              ![rider2] = UpdateDelta(@, rider2_delta)]
        counted == [updated EXCEPT
                      ![rider1] = IF rider1_score = 1 THEN IncrementWins(@)
                                  ELSE IncrementLosses(@),
                      ![rider2] = IF rider2_score = 1 THEN IncrementWins(@)
                                  ELSE IncrementLosses(@)]
        done == call @@ [margvict_mult |-> Some(mv.value),
                         rider1_delta |-> rider1_delta, rider2_delta |-> rider2_delta]
    IN  IF mv.raised
        THEN [riders |-> rs, err |-> "TypeError",
              call |-> call @@ [margvict_mult |-> None,
                                rider1_delta |-> 0, rider2_delta |-> 0]]
        ELSE IF impl = "Velo"
        THEN \* entities.Rider defines neither increment_wins nor increment_losses
             [riders |-> updated, err |-> "AttributeError", call |-> done]
        ELSE [riders |-> counted, err |-> "none", call |-> done]

(***************************************************************************)
(* simulate_race                                                           *)
(***************************************************************************)
KFunc(race_weight, rider1_place, rider2_place) ==
    IF impl = "Velo"
    THEN KDecay(race_weight, rider1_place, rider2_place, AlphaDefault, BetaDefault)
    ELSE Linear2(race_weight, rider1_place, rider2_place)

\* int(results[AGE_COL].iloc[i]), 0 when that raises
ParseAge(age) == IF age = None THEN 0 ELSE age[1]

\* the pairs (i, j) the two nested loops visit, in the order they visit them
AllPairs(n) == [k \in 1..(n * n) |-> << ((k - 1) \div n) + 1, ((k - 1) % n) + 1 >>]
UpperPair(p) == p[1] < p[2]
LoopPairs(n) ==
    IF impl = "Velo" THEN SelectSeq(AllPairs(n), UpperPair) ELSE AllPairs(n)

\* a check that lets two rows on the same place through
PlaceNotBetterStrict(rider1_place, rider2_place) == rider1_place > rider2_place

\* if rider i's place is not better than rider j's, the pair is skipped
PlaceNotBetter(rider1_place, rider2_place) == rider1_place >= rider2_place

\* the body of the inner loop for the pair (i, j); st = [riders, h2hs, err]
PairBody(st, results, i, j, race_name, race_weight, race_date, timegap_multiplier) ==
    LET rider1_place == results[i].place
        rider2_place == results[j].place
        rider1_name == results[i].rider
        rider2_name == results[j].rider
        rider1_age == ParseAge(results[i].age)
        rider2_age == ParseAge(results[j].age)
        added == AddNewRider(AddNewRider(st.riders, rider1_name, rider1_age),
                             rider2_name, rider2_age)
        raced == [added EXCEPT
                    ![rider1_name] = AddNewRace(@, race_name, race_weight, race_date, rider1_place),
                    ![rider2_name] = AddNewRace(@, race_name, race_weight, race_date, rider2_place)]
        unparseable == (rider1_place # 0 /\ results[i].time = None) \/ results[j].time = None
        rider1_time == IF unparseable \/ rider1_place = 0 THEN 0 ELSE results[i].time[1]
        rider2_time == IF unparseable THEN 0 ELSE results[j].time[1]
        matchup_weight == KFunc(race_weight, rider1_place, rider2_place)
        res == H2H(raced, rider1_name, rider1_time, rider2_name, rider2_time,
                   matchup_weight, timegap_multiplier)
    IN  IF PlaceNotBetter(rider1_place, rider2_place)
        THEN st
        ELSE [riders |-> res.riders,
              h2hs |-> Append(st.h2hs, res.call @@ [i |-> i, j |-> j,
                                                    rider1_place |-> rider1_place,
                                                    rider2_place |-> rider2_place]),
              err |-> res.err]

RECURSIVE RunPairs(_, _, _, _, _, _, _, _)
RunPairs(st, pairs, k, results, race_name, race_weight, race_date, timegap_multiplier) ==
    IF k > Len(pairs) \/ st.err # "none"
    THEN st
    ELSE RunPairs(PairBody(st, results, pairs[k][1], pairs[k][2],
                           race_name, race_weight, race_date, timegap_multiplier),
                  pairs, k + 1, results, race_name, race_weight, race_date,
                  timegap_multiplier)

RaceDate(results) == <<results[1].year, results[1].month, results[1].day>>

SimulateRaceResult(rs, results, race_name, race_weight, timegap_multiplier) ==
    RunPairs([riders |-> rs, h2hs |-> <<>>, err |-> "none"],
             LoopPairs(Len(results)), 1, results, race_name, race_weight,
             RaceDate(results), timegap_multiplier)

(***************************************************************************)
(* apply_all_deltas, save_system, new_season_regression                    *)
(***************************************************************************)
\* a loop that resolves only the riders the event touched
ApplyAllDeltasToTouched(rs, datestamp) ==
    [name \in DOMAIN rs |->
        IF rs[name].delta # 0 THEN ResolveDelta(rs[name], datestamp) ELSE rs[name]]

ApplyAllDeltasResult(rs, datestamp) ==
    [name \in DOMAIN rs |-> ResolveDelta(rs[name], datestamp)]

SaveSystem(rd, rs, d) ==
    [year |-> Append(rd.year, d[1]),
     month |-> Append(rd.month, d[2]),
     day |-> Append(rd.day, d[3]),
     series |-> [name \in DOMAIN rs |->
                    IF name \in DOMAIN rd.series
                    THEN Append(rd.series[name], rs[name].rating)
                    ELSE Append([k \in 1..Len(rd.year) |-> InitialRating],
                                rs[name].rating)]]

\* Velo passes one argument to entities.Rider.new_season(year, weight): the first
\* rider's call raises TypeError, after the race log was appended to and before
\* save_system.  CyclElo's Rider.new_season(weight) takes the one argument.
NewSeasonRegressionResult(rs, rd, year, regression_to_mean_weight) ==
    IF impl = "Velo" /\ DOMAIN rs # {}
    THEN [riders |-> rs, rating_data |-> rd, err |-> "TypeError"]
    ELSE LET regressed == [name \in DOMAIN rs |->
                              RiderNewSeason(rs[name], regression_to_mean_weight)]
         IN  [riders |-> regressed,
              rating_data |-> SaveSystem(rd, regressed, <<year, 1, 1>>),
              err |-> "none"]

(***************************************************************************)
(* Inputs.                                                                 *)
(***************************************************************************)
RiderLists == {<<"a", "b">>, <<"a", "b", "c">>}
RaceNames == {"tour"}
RaceWeights == {120}
Multipliers == {None, Some(1)}
RaceDates == {<<2021, 7, 1>>}
Dates == RaceDates \cup {<<2022, 7, 1>>}
Years == {d[1] : d \in Dates}
RegWeights == {0, 1, 4, 5, 10}
TimePatterns == {"rising", "falling", "missing"}

\* the age column: b's age does not parse
AgeOf(name) == IF name = "a" THEN Some(30) ELSE IF name = "b" THEN None ELSE Some(25)

\* the time column of row k of n: seconds behind, or None where it does not parse
TimeOf(pattern, k, n) ==
    IF pattern = "rising" THEN Some(10 * (k - 1))
    ELSE IF pattern = "falling" THEN Some(10 * (n - k))
    ELSE IF k = n THEN None ELSE Some(10 * (k - 1))

MakeResults(names, places, pattern, d) ==
    [k \in 1..Len(names) |->
        [rider |-> names[k], place |-> places[k], age |-> AgeOf(names[k]),
         time |-> TimeOf(pattern, k, Len(names)),
         year |-> d[1], month |-> d[2], day |-> d[3]]]

ResultsTables ==
    UNION {{MakeResults(names, places, pattern, d) :
                places \in [1..Len(names) -> 1..MaxPlace],
                pattern \in TimePatterns, d \in RaceDates} : names \in RiderLists}

(***************************************************************************)
(* The rating system as a state machine.                                   *)
(***************************************************************************)
Init ==
    /\ impl \in {"Velo", "CyclElo"}
    /\ riders = <<>>
    /\ races = <<>>
    /\ rating_data = [year |-> <<>>, month |-> <<>>, day |-> <<>>, series |-> <<>>]
    /\ op = "init"
    /\ args = <<>>
    /\ err = "none"
    /\ h2hs = <<>>
    /\ nops = 0
    /\ nseasons = 0
    /\ out = None
    /\ frame = NoFrame
    /\ config = ConstructorDefaults(impl)

\* a race is simulated once the previous one's deltas were applied
SimulateRaceOf(tables) ==
    /\ nops < MaxOps
    /\ op # "simulate_race"
    /\ \E race_name \in RaceNames, results \in tables,
          race_weight \in RaceWeights, timegap_multiplier \in Multipliers :
          LET res == SimulateRaceResult(riders, results, race_name, race_weight,
                                        timegap_multiplier)
          IN  /\ races' = Append(races, MakeRace(race_name, Some(race_weight),
                                                 RaceDate(results), None))
              /\ riders' = res.riders
              /\ h2hs' = res.h2hs
              /\ err' = res.err
              /\ args' = [race_name |-> race_name, results |-> results,
                          race_weight |-> race_weight,
                          timegap_multiplier |-> timegap_multiplier]
    /\ op' = "simulate_race"
    /\ nops' = nops + 1
    /\ UNCHANGED <<impl, rating_data, nseasons, out, frame, config>>

SimulateRace == SimulateRaceOf(ResultsTables)

ApplyAllDeltas ==
    /\ nops < MaxOps
    /\ \E race_name \in RaceNames, race_weight \in RaceWeights, datestamp \in Dates :
          /\ riders' = ApplyAllDeltasResult(riders, datestamp)
          /\ args' = [race_name |-> race_name, race_weight |-> race_weight,
                      datestamp |-> datestamp]
    /\ op' = "apply_all_deltas"
    /\ err' = "none"
    /\ h2hs' = <<>>
    /\ nops' = nops + 1
    /\ UNCHANGED <<impl, races, rating_data, nseasons, out, frame, config>>

\* the weights for which the regression of every known rating stays on the
\* rating lattice (all of RegWeights for the first MaxSeasons regressions)
ExactRegWeights(rs) ==
    {w \in RegWeights :
        w = RegDen \/ \A name \in DOMAIN rs : rs[name].rating % RegDen = 0}

NewSeasonRegressionWithin(limit) ==
    /\ nops < MaxOps
    /\ nseasons < limit
    /\ op # "simulate_race"
    /\ \E year \in Years, regression_to_mean_weight \in ExactRegWeights(riders) :
          LET res == NewSeasonRegressionResult(riders, rating_data, year,
                                               regression_to_mean_weight)
          IN  /\ riders' = res.riders
              /\ rating_data' = res.rating_data
              /\ err' = res.err
              /\ args' = [year |-> year,
                          regression_to_mean_weight |-> regression_to_mean_weight]
    /\ races' = Append(races, MakeRace("New Season", None, None, None))
    /\ op' = "new_season_regression"
    /\ h2hs' = <<>>
    /\ nops' = nops + 1
    /\ nseasons' = nseasons + 1
    /\ UNCHANGED <<impl, out, frame, config>>

NewSeasonRegression == NewSeasonRegressionWithin(MaxSeasons)

Next == SimulateRace \/ ApplyAllDeltas \/ NewSeasonRegression

Spec == Init /\ [][Next]_vars

(***************************************************************************)
(* One Rider object on its own: constructed with any initial rating, then  *)
(* new_season is called on it.                                             *)
(***************************************************************************)
RatingSpread == 5
RiderRatings ==
    {(DEFAULT_INITIAL_RATING + (60 * k)) * Scale : k \in (0 - RatingSpread)..RatingSpread}

InitRider ==
    /\ impl \in {"Velo", "CyclElo"}
    /\ \E initial_rating \in RiderRatings : riders = ("a" :> Rider(initial_rating, None))
    /\ races = <<>>
    /\ rating_data = [year |-> <<>>, month |-> <<>>, day |-> <<>>, series |-> <<>>]
    /\ op = "init"
    /\ args = <<>>
    /\ err = "none"
    /\ h2hs = <<>>
    /\ nops = 0
    /\ nseasons = 0
    /\ out = None
    /\ frame = NoFrame
    /\ config = ConstructorDefaults(impl)

NewSeason ==
    /\ nseasons < MaxSeasons
    /\ \E year \in Years, weight \in RegWeights :
          /\ riders' = [name \in DOMAIN riders |->
                           IF impl = "Velo"
                           THEN EntitiesNewSeason(riders[name], year, weight)
                           ELSE RiderNewSeason(riders[name], weight)]
          /\ args' = [year |-> year, weight |-> weight]
    /\ op' = "new_season"
    /\ nops' = nops + 1
    /\ nseasons' = nseasons + 1
    /\ UNCHANGED <<impl, races, rating_data, err, h2hs, out, frame, config>>

NextRider == NewSeason

SpecRider == InitRider /\ [][NextRider]_vars

(***************************************************************************)
(* Properties.                                                             *)
(***************************************************************************)
Known == DOMAIN riders
Simulated == op = "simulate_race"
Applied == op = "apply_all_deltas"

\* every head-to-head of the last simulate_race added deltas that sum to zero
H2HZeroSum == \A k \in 1..Len(h2hs) : h2hs[k].rider1_delta + h2hs[k].rider2_delta = 0

\* the race just simulated had two rows, first and second in that order with
\* elapsed times to match, and both riders stand at the initial rating
FirstAndSecondAt1500 ==
    /\ Simulated
    /\ Len(args.results) = 2
    /\ args.results[1].place = 1 /\ args.results[1].time = Some(0)
    /\ args.results[2].place = 2 /\ args.results[2].time = Some(10)
    /\ \A k \in 1..2 : /\ args.results[k].rider \in Known
                       /\ riders[args.results[k].rider].rating = InitialRating

\* C1: the two deltas of every head-to-head sum to exactly zero, and when two
\* riders both rated 1500 finish first and second, apply_all_deltas raises the
\* winner's rating by some D > 0 and lowers the loser's by exactly D.
C1_WinnerGainsWhatLoserLoses ==
    [][/\ H2HZeroSum'
       /\ (FirstAndSecondAt1500 /\ op' = "apply_all_deltas") =>
             LET winner == args.results[1].rider
                 loser == args.results[2].rider
                 D == riders'[winner].rating - riders[winner].rating
             IN  /\ D > 0
                 /\ riders'[loser].rating = riders[loser].rating - D]_vars

\* the pairs of rows for which simulate_race runs a head-to-head, in loop order
PlacedBefore(results, pair) == results[pair[1]].place < results[pair[2]].place
H2HPairs(results) ==
    SelectSeq(LoopPairs(Len(results)), LAMBDA pair : PlacedBefore(results, pair))

RatingOf(rs, name) == IF name \in DOMAIN rs THEN rs[name].rating ELSE InitialRating
FinalRating(rs, name, datestamp) ==
    RatingOf(ApplyAllDeltasResult(rs, datestamp), name)

\* C2: whatever the order in which the head-to-heads of one simulate_race are
\* run, apply_all_deltas leaves every rider with the same final rating as the
\* order of the loops does.
C2_PairOrderDoesNotMatter ==
    [][op' = "simulate_race" =>
          LET results == args'.results
              pairs == H2HPairs(results)
          IN  \A f \in Permutations(1..Len(pairs)) :
                 LET permuted == [k \in 1..Len(pairs) |-> pairs[f[k]]]
                     alt == RunPairs([riders |-> riders, h2hs |-> <<>>, err |-> "none"],
                                     permuted, 1, results, args'.race_name,
                                     args'.race_weight, RaceDate(results),
                                     args'.timegap_multiplier)
                     d == RaceDate(results)
                 IN  \A name \in DOMAIN riders' \cup DOMAIN alt.riders :
                        FinalRating(alt.riders, name, d) = FinalRating(riders', name, d)]_vars

\* a rider's fields other than those in the set left out
Without(r, fields) == [f \in (DOMAIN r) \ fields |-> r[f]]

\* C3 as stated: simulate_race changes nothing of a known rider but its pending
\* delta, its age and its race_history, and nothing of the saved rating data.
C3_OnlyDeltaAgeRaceHistoryChange ==
    [][op' = "simulate_race" =>
          /\ Known \subseteq DOMAIN riders'
          /\ rating_data' = rating_data
          /\ \A name \in Known :
                Without(riders'[name], {"delta", "age", "race_history"})
                   = Without(riders[name], {"delta", "age", "race_history"})]_vars

\* C3: simulate_race leaves the rating, the rating_history and the
\* most_recent_active_year of every known rider unchanged, and the saved rating
\* data too: it changes only pending deltas, ages, race histories and, in
\* CyclElo, the season win and loss counters; a rider it creates starts at the
\* initial rating.
C3_SimulateRaceKeepsRatings ==
    [][op' = "simulate_race" =>
          /\ Known \subseteq DOMAIN riders'
          /\ rating_data' = rating_data
          /\ \A name \in Known :
                /\ riders'[name].rating = riders[name].rating
                /\ riders'[name].rating_history = riders[name].rating_history
                /\ Without(riders'[name], {"delta", "age", "race_history",
                                           "season_wins", "season_losses"})
                      = Without(riders[name], {"delta", "age", "race_history",
                                               "season_wins", "season_losses"})
          /\ \A name \in (DOMAIN riders') \ Known :
                /\ riders'[name].rating = InitialRating
                /\ Len(riders'[name].rating_history) = 1]_vars

\* a second race was simulated over riders whose ratings an earlier race moved
C3_Witness ==
    /\ impl = "CyclElo"
    /\ Simulated
    /\ \E name \in Known : /\ riders[name].delta # 0
                           /\ riders[name].rating # InitialRating
                           /\ riders[name].season_wins > 0

\* C4: outside the span between a simulate_race and the apply_all_deltas that
\* follows it, every known rider's pending delta is zero: after apply_all_deltas
\* returns, and so at the start of every simulate_race.
C4_DeltaZeroOutsideEvent == (~Simulated) => \A name \in Known : riders[name].delta = 0

\* apply_all_deltas has resolved a delta that was not zero
C4_Witness ==
    /\ Applied
    /\ \E name \in Known : riders[name].rating # InitialRating
    /\ \A name \in Known : riders[name].delta = 0

\* C5: apply_all_deltas(race, weight, date) gives every known rider the rating
\* old rating + pending delta and appends exactly one entry (new rating, date)
\* to its rating_history, whether or not the event touched the rider.
C5_ApplyResolvesEveryRider ==
    [][op' = "apply_all_deltas" =>
          /\ DOMAIN riders' = Known
          /\ \A name \in Known :
                /\ riders'[name].rating = riders[name].rating + riders[name].delta
                /\ riders'[name].rating_history =
                      Append(riders[name].rating_history,
                             <<riders'[name].rating, args'.datestamp>>)]_vars

\* apply_all_deltas has run twice: the first call moved a rating, the second
\* found the same rider with nothing pending and still added an entry
C5_Witness ==
    /\ Applied
    /\ \E name \in Known :
          LET h == riders[name].rating_history
          IN  /\ Len(h) = 3
              /\ h[2][1] # InitialRating
              /\ h[3][1] = h[2][1]

\* C6: when apply_all_deltas resolves an event dated d (the call before it
\* having returned), a rider whose pending delta was zero keeps its
\* most_recent_active_year, and a year that changes becomes d.year; in Velo and
\* in CyclElo alike.
C6_YearMovesOnlyWithDelta ==
    [][(err = "none" /\ op' = "apply_all_deltas") =>
          \A name \in Known :
             LET before == riders[name].most_recent_active_year
                 after == riders'[name].most_recent_active_year
             IN  /\ (riders[name].delta = 0) => (after = before)
                 /\ (after # before) => (after = args'.datestamp[1])]_vars

C8_VeloNewSeasonRegressionCompletes ==
    [][(impl = "Velo" /\ op' = "new_season_regression" /\ Known # {}) =>
          /\ err' = "none"
          /\ races' = Append(races, MakeRace("New Season", None, None, None))
          /\ \A name \in Known :
                /\ riders'[name].rating =
                      RegressedRating(riders[name].rating, args'.regression_to_mean_weight)
                /\ Len(riders'[name].rating_history) =
                      Len(riders[name].rating_history) + 1]_vars

\* C9: in every head-to-head of a simulate_race that returned, rider1 is the
\* better placed of the two and is given score 1, rider2 score 0, whatever the
\* elapsed times.
C9_BetterPlaceScoresOne ==
    (err = "none") => \A k \in 1..Len(h2hs) :
       /\ h2hs[k].rider1_place < h2hs[k].rider2_place
       /\ h2hs[k].rider1_score = 1
       /\ h2hs[k].rider2_score = 0

\* the number of head-to-heads the last simulate_race ran with row i as rider1
\* and row j as rider2
H2HCount(log, i, j) == Cardinality({k \in 1..Len(log) : log[k].i = i /\ log[k].j = j})

\* C10: a simulate_race that returns has run, for any two rows i and j in any
\* row order, exactly one head-to-head with i as rider1 and j as rider2 when
\* i's place is smaller than j's, and none otherwise; in Velo and in CyclElo.
C10_OneH2HPerPlacedPair ==
    [][(op' = "simulate_race" /\ err' = "none") =>
          LET results == args'.results
          IN  \A i \in 1..Len(results), j \in 1..Len(results) :
                 H2HCount(h2hs', i, j) =
                    IF results[i].place < results[j].place THEN 1 ELSE 0]_vars

\* C11: the margin-of-victory factor of every head-to-head is 1, with the
\* time-gap multiplier None as with a number, and computing it never raises
\* and aborts simulate_race.
C11_MarginFactorOneNeverRaises ==
    /\ err # "TypeError"
    /\ \A k \in 1..Len(h2hs) : h2hs[k].margvict_mult = Some(1)

\* some row of the table carries a time that does not parse
HasUnparseableTime(results) == \E k \in 1..Len(results) : results[k].time = None

\* C12: when the time of a row does not parse (and the time-gap multiplier is a
\* number), simulate_race returns without raising; every pair with such a row
\* is run with both elapsed times zero, so that the better-placed rider scores
\* 1 and the deltas are added; and every pair the loops visit is run.
C12_UnparseableTimeDoesNotAbort ==
    [][(/\ op' = "simulate_race"
        /\ args'.timegap_multiplier # None
        /\ HasUnparseableTime(args'.results)) =>
          LET results == args'.results
          IN  /\ err' = "none"
              /\ Len(h2hs') = Len(H2HPairs(results))
              /\ \A k \in 1..Len(h2hs') :
                    (results[h2hs'[k].i].time = None \/ results[h2hs'[k].j].time = None) =>
                       /\ h2hs'[k].rider1_time = 0
                       /\ h2hs'[k].rider2_time = 0
                       /\ h2hs'[k].rider1_score = 1
                       /\ h2hs'[k].rider1_delta > 0
                       /\ h2hs'[k].rider2_delta < 0]_vars

(***************************************************************************)
(* Velo.print_system                                                       *)
(***************************************************************************)
PRINT_RIDER_NUM_TOP_PLACINGS == 1
TOP_PLACING_DEFINITION == 10

\* list(self.riders.values()): the dict iterates in insertion order; the
\* populations below are inserted in the order a, b, c
RiderValues(rs) == SelectSeq(<<"a", "b", "c">>, LAMBDA name : name \in DOMAIN rs)

\* a sort that leaves out reverse = True
RECURSIVE RidersSortedAscending(_, _)
RidersSortedAscending(rs, names) ==
    IF names = <<>>
    THEN <<>>
    ELSE LET s == RidersSortedAscending(rs, SubSeq(names, 1, Len(names) - 1))
             e == names[Len(names)]
         IN  SelectSeq(s, LAMBDA x : rs[x].rating <= rs[e].rating)
                \o <<e>>
                \o SelectSeq(s, LAMBDA x : rs[x].rating > rs[e].rating)

\* sorted(..., key = lambda rider: rider.rating, reverse = True): stable, so
\* that riders of equal rating keep their order
RECURSIVE RidersSorted(_, _)
RidersSorted(rs, names) ==
    IF names = <<>>
    THEN <<>>
    ELSE LET s == RidersSorted(rs, SubSeq(names, 1, Len(names) - 1))
             e == names[Len(names)]
         IN  SelectSeq(s, LAMBDA x : rs[x].rating >= rs[e].rating)
                \o <<e>>
                \o SelectSeq(s, LAMBDA x : rs[x].rating < rs[e].rating)

\* the sort key (race.place is None, race.place): x before or level with y
PlaceKeyLE(x, y) ==
    IF x.place = None THEN y.place = None
    ELSE y.place = None \/ x.place[1] <= y.place[1]

\* sorted(rider.race_history, key = lambda race: (race.place is None, race.place))
RECURSIVE SortedResults(_)
SortedResults(race_history) ==
    IF race_history = <<>>
    THEN <<>>
    ELSE LET s == SortedResults(SubSeq(race_history, 1, Len(race_history) - 1))
             e == race_history[Len(race_history)]
         IN  SelectSeq(s, LAMBDA x : PlaceKeyLE(x, e))
                \o <<e>>
                \o SelectSeq(s, LAMBDA x : ~PlaceKeyLE(x, e))

\* the negation of the condition of the second `continue`: the rider has
\* placed high enough a sufficient number of times
PlacedHighEnough(r) ==
    LET sorted_results == SortedResults(r.race_history)
    IN  ~(\/ Len(sorted_results) < PRINT_RIDER_NUM_TOP_PLACINGS
          \/ sorted_results[PRINT_RIDER_NUM_TOP_PLACINGS].place = None
          \/ sorted_results[PRINT_RIDER_NUM_TOP_PLACINGS].place[1] > TOP_PLACING_DEFINITION)

\* the loop over riders_sorted from index k on, `place` being the next rank to
\* print and `printed` the names printed so far
RECURSIVE PrintLoop(_, _, _, _, _, _, _, _)
PrintLoop(rs, riders_sorted, k, place, printed, curr_year, min_rating, max_places) ==
    IF k > Len(riders_sorted)
    THEN [printed |-> printed, err |-> "none"]
    ELSE LET rider == rs[riders_sorted[k]]
         IN  IF rider.rating < min_rating \/ place > max_places
             THEN [printed |-> printed, err |-> "none"]
             ELSE IF rider.most_recent_active_year < curr_year - 1
             THEN PrintLoop(rs, riders_sorted, k + 1, place, printed,
                            curr_year, min_rating, max_places)
             ELSE IF ~PlacedHighEnough(rider)
             THEN PrintLoop(rs, riders_sorted, k + 1, place, printed,
                            curr_year, min_rating, max_places)
             ELSE IF Len(rider.rating_history) < 2
             THEN \* rider.rating_history[-2]
                  [printed |-> printed, err |-> "IndexError"]
             ELSE PrintLoop(rs, riders_sorted, k + 1, place + 1,
                            Append(printed, riders_sorted[k]),
                            curr_year, min_rating, max_places)

PrintSystemResult(rs, curr_year, min_rating, max_places) ==
    PrintLoop(rs, RidersSorted(rs, RiderValues(rs)), 1, 1, <<>>,
              curr_year, min_rating, max_places)

(***************************************************************************)
(* A specification of print_system alone: a Velo system holding up to      *)
(* three riders, each after at most one race, and print_system called on   *)
(* it.                                                                     *)
(***************************************************************************)
MaxPrints == 2
CareerPlaces == {1, TOP_PLACING_DEFINITION + 1}
CareerDeltas == {(0 - 60) * Scale, 0, 60 * Scale}
CareerDates == {<<2020, 7, 1>>, <<2021, 7, 1>>}

\* the rider objects after one race: add_new_race, update_delta, resolve_delta
Careers ==
    {ResolveDelta(UpdateDelta(AddNewRace(Rider(InitialRating, None),
                                         "tour", 120, d, place), delta), d) :
        place \in CareerPlaces, delta \in CareerDeltas, d \in CareerDates}

Populations ==
    UNION {[names -> Careers] : names \in {{"a", "b"}, {"a", "b", "c"}}}

PrintYears == {2021, 2022}
MinRatings == {InitialRating, InitialRating - (60 * Scale)}
MaxPlacesArgs == {1, 2, 50}

InitPrint ==
    /\ impl = "Velo"
    /\ riders \in Populations
    /\ races = <<>>
    /\ rating_data = [year |-> <<>>, month |-> <<>>, day |-> <<>>, series |-> <<>>]
    /\ op = "init"
    /\ args = <<>>
    /\ err = "none"
    /\ h2hs = <<>>
    /\ nops = 0
    /\ nseasons = 0
    /\ out = None
    /\ frame = NoFrame
    /\ config = ConstructorDefaults(impl)

PrintSystem ==
    /\ nops < MaxPrints
    /\ \E curr_year \in PrintYears, min_rating \in MinRatings, max_places \in MaxPlacesArgs :
          LET res == PrintSystemResult(riders, curr_year, min_rating, max_places)
          IN  /\ out' = Some(res.printed)
              /\ err' = res.err
              /\ args' = [curr_year |-> curr_year, min_rating |-> min_rating,
                          max_places |-> max_places]
    /\ op' = "print_system"
    /\ nops' = nops + 1
    /\ UNCHANGED <<impl, riders, races, rating_data, h2hs, nseasons, frame, config>>

NextPrint == PrintSystem

SpecPrint == InitPrint /\ [][NextPrint]_vars

\* the printed names, in rank order
Printed == out[1]

IsPrinted(name) == \E k \in 1..Len(Printed) : Printed[k] = name

\* the two conditions the ranking is said to select on
RatedAndActive(name) ==
    /\ riders[name].rating >= args.min_rating
    /\ riders[name].most_recent_active_year >= args.curr_year - 1

Min(x, y) == IF x <= y THEN x ELSE y

\* Printed is exactly the riders satisfying Listed(_), in descending rating
\* order, cut to the first max_places of them
IsRankingOf(Listed(_)) ==
    LET listed == {name \in DOMAIN riders : Listed(name)}
    IN  /\ \A k \in 1..Len(Printed) : Printed[k] \in listed
        /\ \A k, l \in 1..Len(Printed) : k < l =>
              /\ Printed[k] # Printed[l]
              /\ riders[Printed[k]].rating >= riders[Printed[l]].rating
        /\ Len(Printed) = Min(args.max_places, Cardinality(listed))
        /\ \A name \in listed : ~IsPrinted(name) =>
              \A k \in 1..Len(Printed) : riders[Printed[k]].rating >= riders[name].rating

\* C13 as stated: the ranking print_system prints is exactly the known riders
\* with rating >= min_rating and most_recent_active_year >= curr_year - 1, in
\* descending rating order, cut to the first max_places; a rider whose year is
\* still the initial sentinel is never listed.
C13_RankingIsRatedAndActive ==
    op = "print_system" =>
       /\ err = "none"
       /\ IsRankingOf(RatedAndActive)
       /\ \A name \in DOMAIN riders :
             riders[name].most_recent_active_year = EntitiesSentinelYear => ~IsPrinted(name)

\* the riders the amended ranking selects
RatedActiveAndPlaced(name) == RatedAndActive(name) /\ PlacedHighEnough(riders[name])

\* C13 amended: the ranking is exactly the known riders with rating >=
\* min_rating, most_recent_active_year >= curr_year - 1 and at least
\* PRINT_RIDER_NUM_TOP_PLACINGS race placings within the first
\* TOP_PLACING_DEFINITION, in descending rating order, cut to the first
\* max_places; a rider whose year is still the initial sentinel is never listed.
C13_RankingIsRatedActiveAndPlaced ==
    op = "print_system" =>
       /\ err = "none"
       /\ IsRankingOf(RatedActiveAndPlaced)
       /\ \A name \in DOMAIN riders :
             riders[name].most_recent_active_year = EntitiesSentinelYear => ~IsPrinted(name)

\* a ranking cut to one line although two riders qualify, with a third rider
\* rated and active but without a top placing
C13_Witness ==
    /\ op = "print_system"
    /\ Len(Printed) = 1
    /\ args.max_places = 1
    /\ Cardinality({name \in DOMAIN riders : RatedActiveAndPlaced(name)}) = 2
    /\ \E name \in DOMAIN riders : RatedAndActive(name) /\ ~PlacedHighEnough(riders[name])

(***************************************************************************)
(* VGlicko.py, entities.GlickoRider.  A rating deviation and a volatility  *)
(* are integers in units of 1/GlickoDen (350 is 35000, 0.06 is 6).         *)
(***************************************************************************)
GlickoDen == 10 * 10
SCALE_CONSTANT == 1737178        \* 173.7178, in 1/10000
INITIAL_RD == 350
INITIAL_VOLATILITY == 6          \* 0.06, in 1/GlickoDen

\* the integer square root, by bisection between lo and hi
RECURSIVE ISqrtBetween(_, _, _)
ISqrtBetween(n, lo, hi) ==
    IF lo >= hi THEN lo
    ELSE LET mid == (lo + hi + 1) \div 2
         IN  IF mid * mid <= n THEN ISqrtBetween(n, mid, hi)
             ELSE ISqrtBetween(n, lo, mid - 1)
ISqrt(n) == ISqrtBetween(n, 0, 46340)

\* GlickoRider(name, initial_rating, initial_rd, initial_volatility, age = age)
GlickoRider(initial_rating, initial_rd, initial_volatility, age) ==
    [rating |-> initial_rating, age |-> age, delta |-> 0,
     rating_history |-> <<<<initial_rating, initial_rd, initial_volatility,
                            NEW_SEASON_RATING_KEYWORD>>>>,
     race_history |-> <<>>,
     most_recent_active_year |-> EntitiesSentinelYear,
     rd |-> initial_rd, volatility |-> initial_volatility, num_races |-> 0,
     beginning_year_rating |-> initial_rating, races_this_year |-> 0]

\* VGlicko.add_new_rider(name, age): the age is stored as the column holds it
GlickoAddNewRider(rs, name, age) ==
    IF name \in DOMAIN rs
    THEN [rs EXCEPT ![name].age = age]
    ELSE rs @@ (name :> GlickoRider(InitialRating, INITIAL_RD * GlickoDen,
                                    INITIAL_VOLATILITY, age))

\* sqrt(phi ** 2 + vol ** 2) * SCALE_CONSTANT with phi = rd / SCALE_CONSTANT,
\* which is sqrt(rd ** 2 + (vol * SCALE_CONSTANT) ** 2), rounded down
ComputeNonCompetitorRdUpdate(r) ==
    LET scaled_vol == (r.volatility * SCALE_CONSTANT) \div 10000
    IN  ISqrt((r.rd * r.rd) + (scaled_vol * scaled_vol))

\* the first loop of simulate_race over the rows from row k on: every row's
\* rider is added to the system (or its age replaced) before the snapshot
RECURSIVE GlickoAddRows(_, _, _)
GlickoAddRows(rs, results, k) ==
    IF k > Len(results) THEN rs
    ELSE GlickoAddRows(GlickoAddNewRider(rs, results[k].rider, results[k].age),
                       results, k + 1)

\* VGlicko.simulate_race.  The riders of the rows are added and the snapshot is
\* taken; with two rows or more the first matchup weight then reads
\* self.k_decay, an attribute neither VGlicko nor Velo has (k_decay is a
\* module-level name of Velo.py), and with one row compute_v divides 1 by the
\* integer 0 of its empty sum.  No path reaches the computation of the new
\* ratings or the commit loop, so that self.rating_deltas, emptied on entry,
\* stays empty.
GlickoSimulateRaceResult(rs, results, race_name, race_weight, timegap_multiplier) ==
    [riders |-> GlickoAddRows(rs, results, 1),
     err |-> IF Len(results) >= 2 THEN "AttributeError" ELSE "ZeroDivisionError"]

(***************************************************************************)
(* A specification of a VGlicko system: events of one to three rows.       *)
(***************************************************************************)
GlickoRiderLists == {<<"a">>, <<"a", "b">>, <<"c", "a">>, <<"a", "b", "c">>}
GlickoRaceNames == {"tour", "giro"}

GlickoResultsTables ==
    {MakeResults(names, [k \in 1..Len(names) |-> k], "rising", d) :
        names \in GlickoRiderLists, d \in Dates}

InitGlicko ==
    /\ impl = "VGlicko"
    /\ riders = <<>>
    /\ races = <<>>
    /\ rating_data = [year |-> <<>>, month |-> <<>>, day |-> <<>>, series |-> <<>>]
    /\ op = "init"
    /\ args = <<>>
    /\ err = "none"
    /\ h2hs = <<>>
    /\ nops = 0
    /\ nseasons = 0
    /\ out = None
    /\ frame = NoFrame
    /\ config = ConstructorDefaults(impl)

GlickoSimulateRace ==
    /\ nops < MaxOps
    /\ \E race_name \in GlickoRaceNames, results \in GlickoResultsTables,
          race_weight \in RaceWeights, timegap_multiplier \in Multipliers :
          LET res == GlickoSimulateRaceResult(riders, results, race_name, race_weight,
                                              timegap_multiplier)
          IN  /\ races' = Append(races, MakeRace(race_name, Some(race_weight),
                                                 RaceDate(results), None))
              /\ riders' = res.riders
              /\ err' = res.err
              /\ args' = [race_name |-> race_name, results |-> results,
                          race_weight |-> race_weight,
                          timegap_multiplier |-> timegap_multiplier]
    /\ op' = "simulate_race"
    /\ nops' = nops + 1
    /\ UNCHANGED <<impl, rating_data, h2hs, nseasons, out, frame, config>>

NextGlicko == GlickoSimulateRace

SpecGlicko == InitGlicko /\ [][NextGlicko]_vars

\* the riders with a row in the table
Participants(results) == {results[k].rider : k \in 1..Len(results)}

\* C14: after VGlicko.simulate_race has processed an event, every known rider
\* without a row in it keeps its rating and volatility and has its rating
\* deviation replaced by 173.7178 * sqrt(phi^2 + sigma^2), which is never less
\* than the deviation it had.
C14_AbsentRiderDeviationGrows ==
    [][op' = "simulate_race" =>
          \A name \in (DOMAIN riders) \ Participants(args'.results) :
             /\ riders'[name].rating = riders[name].rating
             /\ riders'[name].volatility = riders[name].volatility
             /\ riders'[name].rd = ComputeNonCompetitorRdUpdate(riders[name])
             /\ riders'[name].rd >= riders[name].rd]_vars

\* update_rating calls made on a rider so far (each appends to rating_history)
RatingUpdates(rs, name) == IF name \in DOMAIN rs THEN Len(rs[name].rating_history) - 1 ELSE 0

VDen == 32 * 32
LowDen == VDen * (32 * 16)

\* n / d, rounded to the nearest integer
RDiv(n, d) ==
    IF d > 0 THEN ((2 * n) + d) \div (2 * d)
    ELSE ((2 * (0 - n)) + (0 - d)) \div (2 * (0 - d))

VMul(x, y) == RDiv(x * y, VDen)
VDiv(x, y) == RDiv(x * VDen, y)
Abs(x) == IF x < 0 THEN 0 - x ELSE x

\* e^n for n = 0..4 in 1/VDen, and e^(-n) for n = 1..12 in 1/LowDen
ExpTable == <<1024, 2784, 7566, 20568, 55909>>
ExpTableLow == <<192875, 70955, 26103, 9603, 3533, 1300, 478, 176, 65, 24, 9, 3>>

\* e^f for 0 <= f < 1, by the series up to the fifth power
ExpFrac(f) ==
    LET t2 == RDiv(f * f, 2 * VDen)
        t3 == RDiv(t2 * f, 3 * VDen)
        t4 == RDiv(t3 * f, 4 * VDen)
        t5 == RDiv(t4 * f, 5 * VDen)
    IN  VDen + f + t2 + t3 + t4 + t5

\* np.exp(x) for x below 5
Exp(x) ==
    LET n == x \div VDen
        ef == ExpFrac(x - (n * VDen))
    IN  IF n >= 0 THEN RDiv(ExpTable[n + 1] * ef, VDen)
        ELSE IF n < 0 - Len(ExpTableLow) THEN 0
        ELSE RDiv(ExpTableLow[0 - n] * ef, LowDen)

\* np.log(y) for y > 0: the largest x of the lattice with Exp(x) <= y
RECURSIVE LnBetween(_, _, _)
LnBetween(y, lo, hi) ==
    IF lo >= hi THEN lo
    ELSE CHOOSE x \in UNION {IF Exp(mid) <= y THEN {LnBetween(y, mid, hi)}
                                              ELSE {LnBetween(y, lo, mid - 1)} :
                                mid \in {(lo + hi + 1) \div 2}} : TRUE
Ln(y) == LnBetween(y, (0 - Len(ExpTableLow)) * VDen, (Len(ExpTable) - 1) * VDen)

\* frac1 of volatility_update_f
Frac1(phi, v, delta, x) ==
    LET e_x == Exp(x)
        num1 == VMul(e_x, VMul(delta, delta) - VMul(phi, phi) - v - e_x)
        sum == VMul(phi, phi) + v + e_x
        denom1 == 2 * VMul(sum, sum)
    IN  VDiv(num1, denom1)

\* an f whose second term is the quotient of x - a by tau ** 2
VolatilityUpdateFQuotient(phi, v, delta, tau, a, x) ==
    Frac1(phi, v, delta, x) - VDiv(x - a, VMul(tau, tau))

\* volatility_update_f: frac2 = num2 - denom2, the difference of x - a and
\* tau ** 2
VolatilityUpdateF(phi, v, delta, tau, a, x) ==
    LET frac1 == Frac1(phi, v, delta, x)
        num2 == x - a
        denom2 == VMul(tau, tau)
        frac2 == num2 - denom2
    IN  frac1 - frac2

\* f at x with the arguments of the running call
F(a, x) == VolatilityUpdateF(args.phi, args.v, args.delta, args.tau, a, x)

\* the frame on entry of the while loop of update_volatility, f_A and f_B
\* computed; bracketed records whether they have opposite signs
LoopEntry(a, B, k) ==
    LET f_A == F(a, a)
        f_B == F(a, B)
    IN  [pc |-> "illinois", a |-> a, A |-> a, B |-> B, f_A |-> f_A, f_B |-> f_B,
         k |-> k, bracketed |-> (f_A * f_B < 0), nonfinite |-> FALSE]

\* an iteration that updates A and f_A only when the sign changes and forgets
\* B = C, f_B = f_C
IllinoisIterationKeepsB(fr) ==
    LET num_C == (fr.A - fr.B) * fr.f_A
        denom_C == fr.f_B - fr.f_A
        C == fr.A + RDiv(num_C, denom_C)
        f_C == F(fr.a, C)
    IN  IF denom_C = 0 THEN [fr EXCEPT !.nonfinite = TRUE]
        ELSE IF fr.f_B * f_C <= 0
        THEN [fr EXCEPT !.A = fr.B, !.f_A = fr.f_B]
        ELSE fr

\* one iteration of the while loop.  With f_B = f_A the quotient is infinite
\* or not a number; the loop then ends within two more iterations, every later
\* comparison being false, A taking the value of B only if C is minus infinity
\* and f_B negative.
IllinoisIteration(fr) ==
    LET num_C == (fr.A - fr.B) * fr.f_A
        denom_C == fr.f_B - fr.f_A
        C == fr.A + RDiv(num_C, denom_C)
        f_C == F(fr.a, C)
    IN  IF denom_C = 0
        THEN IF num_C < 0 /\ fr.f_B < 0
             THEN [fr EXCEPT !.A = fr.B, !.nonfinite = TRUE]
             ELSE [fr EXCEPT !.nonfinite = TRUE]
        ELSE IF fr.f_B * f_C <= 0
        THEN [fr EXCEPT !.A = fr.B, !.f_A = fr.f_B, !.B = C, !.f_B = f_C]
        ELSE [fr EXCEPT !.f_A = RDiv(fr.f_A, 2), !.B = C, !.f_B = f_C]

(***************************************************************************)
(* A specification of update_volatility alone, one step per loop           *)
(* iteration; args holds phi, v, delta, the system's tau, the rider's      *)
(* volatility and the convergence tolerance.                               *)
(***************************************************************************)
Phis == {VDen \div 2, VDen, 2 * VDen}
Vs == {VDen \div 2, 2 * VDen, 8 * VDen}
Deltas == {0, VDen, 2 * VDen, 3 * VDen}
Taus == {VDen \div 16, VDen \div 4, VDen \div 2}
Volatilities == {VDen \div 2, VDen}
Tolerances == {4, 8}

VolArgs ==
    [phi : Phis, v : Vs, delta : Deltas, tau : Taus,
     volatility : Volatilities, convergence_tolerance : Tolerances]

InitVol ==
    /\ impl = "VGlicko"
    /\ riders = <<>>
    /\ races = <<>>
    /\ rating_data = [year |-> <<>>, month |-> <<>>, day |-> <<>>, series |-> <<>>]
    /\ op = "init"
    /\ args = <<>>
    /\ err = "none"
    /\ h2hs = <<>>
    /\ nops = 0
    /\ nseasons = 0
    /\ out = None
    /\ frame = NoFrame
    /\ config = ConstructorDefaults(impl)

\* update_volatility is called
UpdateVolatilityCall ==
    /\ frame.pc = "none"
    /\ args' \in VolArgs
    /\ op' = "update_volatility"
    /\ frame' = [pc |-> "start"]
    /\ UNCHANGED <<impl, riders, races, rating_data, err, h2hs, nops, nseasons, out,
                   config>>

\* a, A and the choice of how B is found
UpdateVolatilityStart ==
    /\ frame.pc = "start"
    /\ LET excess == VMul(args.delta, args.delta) - VMul(args.phi, args.phi) - args.v
       IN  \E a \in {Ln(VMul(args.volatility, args.volatility))} :
              IF excess > 0
              THEN \E B \in {Ln(excess)} : frame' = LoopEntry(a, B, 0)
              ELSE frame' = [pc |-> "compute_iterative_B", a |-> a, k |-> 1]
    /\ UNCHANGED <<impl, riders, races, rating_data, op, args, err, h2hs, nops,
                   nseasons, out, config>>

\* one test of the while loop of compute_iterative_B
ComputeIterativeBStep ==
    /\ frame.pc = "compute_iterative_B"
    /\ frame' = IF F(frame.a, frame.a - (frame.k * args.tau)) < 0
                THEN [frame EXCEPT !.k = @ + 1]
                ELSE LoopEntry(frame.a, frame.a - (frame.k * args.tau), frame.k)
    /\ UNCHANGED <<impl, riders, races, rating_data, op, args, err, h2hs, nops,
                   nseasons, out, config>>

IllinoisStep ==
    /\ frame.pc = "illinois"
    /\ ~frame.nonfinite
    /\ Abs(frame.B - frame.A) > args.convergence_tolerance
    /\ frame' = IllinoisIteration(frame)
    /\ UNCHANGED <<impl, riders, races, rating_data, op, args, err, h2hs, nops,
                   nseasons, out, config>>

\* return np.exp(A / 2)
UpdateVolatilityReturn ==
    /\ frame.pc = "illinois"
    /\ frame.nonfinite \/ Abs(frame.B - frame.A) <= args.convergence_tolerance
    /\ out' = Some(Exp(RDiv(frame.A, 2)))
    /\ frame' = [frame EXCEPT !.pc = "done"]
    /\ UNCHANGED <<impl, riders, races, rating_data, op, args, err, h2hs, nops,
                   nseasons, config>>

NextVol ==
    \/ UpdateVolatilityCall
    \/ UpdateVolatilityStart
    \/ ComputeIterativeBStep
    \/ IllinoisStep
    \/ UpdateVolatilityReturn

SpecVol == InitVol /\ [][NextVol]_vars

\* the steps of a call that is running
RunVol == UpdateVolatilityStart \/ ComputeIterativeBStep \/ IllinoisStep \/ UpdateVolatilityReturn

\* the interpreter runs a call on: a step of it that can be taken is taken
SpecVolLive == SpecVol /\ WF_vars(RunVol)

C17_UnbracketedHaltsWithError ==
    (frame.pc = "done" /\ ~frame.bracketed) => (err # "none" /\ out = None)

\* C18: the value volatility_update_f computes is
\* e^x (delta^2 - phi^2 - v - e^x) / (2 (phi^2 + v + e^x)^2) minus the
\* quotient (x - a) / tau^2 (seen on f_B, which is f at B in every iteration).
C18_FSubtractsQuotient ==
    frame.pc = "illinois" =>
       frame.f_B = VolatilityUpdateFQuotient(args.phi, args.v, args.delta, args.tau,
                                             frame.a, frame.B)

(***************************************************************************)
(* A specification of k_decay alone: the function is called on places up   *)
(* to MaxDecayPlace with exponents 0.5, 1, 1.5 and 1.8.                    *)
(***************************************************************************)
MaxDecayPlace == 5
DecayExponents == {5, 10, AlphaDefault, BetaDefault}
DecayArgs ==
    {a \in [K : RaceWeights, p1 : 1..MaxDecayPlace, p2 : 1..MaxDecayPlace,
            alpha : DecayExponents, beta : DecayExponents] : a.p1 < a.p2}

InitDecay ==
    /\ impl = "Velo"
    /\ riders = <<>>
    /\ races = <<>>
    /\ rating_data = [year |-> <<>>, month |-> <<>>, day |-> <<>>, series |-> <<>>]
    /\ op = "init"
    /\ args = <<>>
    /\ err = "none"
    /\ h2hs = <<>>
    /\ nops = 0
    /\ nseasons = 0
    /\ out = None
    /\ frame = NoFrame
    /\ config = ConstructorDefaults(impl)

KDecayCall ==
    /\ \E a \in DecayArgs :
          /\ args' = a
          /\ out' = Some(KDecay(a.K, a.p1, a.p2, a.alpha, a.beta))
    /\ op' = "k_decay"
    /\ UNCHANGED <<impl, riders, races, rating_data, err, h2hs, nops, nseasons, frame, config>>

NextDecay == KDecayCall

SpecDecay == InitDecay /\ [][NextDecay]_vars

\* the weight does not grow when both places move down by one (the gap fixed),
\* nor when the worse place alone moves down by one (p1 fixed)
DecayNonIncreasing ==
    /\ args.p2 < MaxDecayPlace =>
          /\ KDecay(args.K, args.p1 + 1, args.p2 + 1, args.alpha, args.beta) <= out[1]
          /\ KDecay(args.K, args.p1, args.p2 + 1, args.alpha, args.beta) <= out[1]

\* C19 as stated: for every alpha > 0 and beta > 0, exponents below 1
\* included, k_decay is non-increasing in p1 for a fixed gap and in the gap for
\* a fixed p1.
C19_DecayNonIncreasingAnyExponent ==
    op = "k_decay" => DecayNonIncreasing

\* C19 amended: the same for alpha >= 1 and beta >= 1.
C19_DecayNonIncreasingFromOne ==
    (op = "k_decay" /\ args.alpha >= 10 /\ args.beta >= 10) => DecayNonIncreasing

\* a call with the default exponents whose weight is strictly above the weight
\* one place further down and above the weight of the gap one wider
C19_Witness ==
    /\ op = "k_decay"
    /\ args.alpha = AlphaDefault
    /\ args.beta = BetaDefault
    /\ args.p2 < MaxDecayPlace
    /\ KDecay(args.K, args.p1 + 1, args.p2 + 1, args.alpha, args.beta) < out[1]
    /\ KDecay(args.K, args.p1, args.p2 + 1, args.alpha, args.beta) < out[1]

(***************************************************************************)
(* A specification of Velo systems built with constructor arguments of     *)
(* their own: the default ones, or exponents 1 and 1.5 with Q = 100 ** (r  *)
(* / 200).                                                                 *)
(***************************************************************************)
OtherConfig ==
    [decay_alpha |-> 10, decay_beta |-> AlphaDefault,
     elo_q_base |-> ELO_Q_BASE * ELO_Q_BASE,
     elo_q_exponent_denom |-> ELO_Q_EXPONENT_DENOM \div 2]
Configs == {ConstructorDefaults("Velo"), OtherConfig}

InitConfig ==
    /\ impl = "Velo"
    /\ riders = <<>>
    /\ races = <<>>
    /\ rating_data = [year |-> <<>>, month |-> <<>>, day |-> <<>>, series |-> <<>>]
    /\ op = "init"
    /\ args = <<>>
    /\ err = "none"
    /\ h2hs = <<>>
    /\ nops = 0
    /\ nseasons = 0
    /\ out = None
    /\ frame = NoFrame
    /\ config \in Configs

SpecConfig == InitConfig /\ [][Next]_vars

\* 1000 * log(2) / log(base): Q = base ** (rating / denom) doubles every
\* denom * log(2) / log(base) rating points
Log2Milli(base) == IF base = ELO_Q_BASE THEN 301 ELSE 151

\* the win probabilities computed with the base and the denominator c holds, on
\* the lattice of GetWinLossProbabilities
OwnWinLossProbabilities(c, rating1, rating2) ==
    LET step == ((c.elo_q_exponent_denom * Log2Milli(c.elo_q_base)) \div 1000) * Scale
        mid == InitialRating \div step
        Q(rating) == IF rating \div step < mid THEN 1
                     ELSE IF rating \div step > mid THEN 4 ELSE 2
    IN  << (Q(rating1) * ProbDen) \div (Q(rating1) + Q(rating2)),
           (Q(rating2) * ProbDen) \div (Q(rating1) + Q(rating2)) >>

\* C20: the comparison weight and the win probabilities of every head-to-head
\* of simulate_race are computed with the decay exponents and the Elo base and
\* denominator the system was built with.
C20_OwnParametersUsed ==
    op = "simulate_race" =>
       \A k \in 1..Len(h2hs) :
          LET c == h2hs[k]
              p == OwnWinLossProbabilities(config, c.rider1_rating, c.rider2_rating)
          IN  /\ c.matchup_weight = KDecay(args.race_weight, c.rider1_place, c.rider2_place,
                                           config.decay_alpha, config.decay_beta)
              /\ c.margvict_mult # None =>
                    /\ c.rider1_delta = EloDelta(c.matchup_weight, c.margvict_mult[1],
                                                 c.rider1_score, p[1])
                    /\ c.rider2_delta = EloDelta(c.matchup_weight, c.margvict_mult[1],
                                                 c.rider2_score, p[2])

(***************************************************************************)
(* Several seasons: the rating system driven through races and more than   *)
(* one new_season_regression.                                              *)
(***************************************************************************)
\* the first event has two rows, with times that parse
FirstEvents ==
    {results \in ResultsTables :
        Len(results) = 2 /\ \A k \in 1..Len(results) : results[k].time # None}

\* the system after its first event: one simulate_race on the fresh system,
\* then apply_all_deltas; the event takes one operation of the budget MaxOps
InitSeasons ==
    /\ impl \in {"Velo", "CyclElo"}
    /\ \E race_name \in RaceNames, results \in FirstEvents,
          race_weight \in RaceWeights, timegap_multiplier \in Multipliers :
          /\ riders = ApplyAllDeltasResult(
                          SimulateRaceResult(<<>>, results, race_name, race_weight,
                                             timegap_multiplier).riders,
                          RaceDate(results))
          /\ races = <<MakeRace(race_name, Some(race_weight), RaceDate(results), None)>>
          /\ args = [race_name |-> race_name, race_weight |-> race_weight,
                     datestamp |-> RaceDate(results)]
    /\ rating_data = [year |-> <<>>, month |-> <<>>, day |-> <<>>, series |-> <<>>]
    /\ op = "apply_all_deltas"
    /\ err = "none"
    /\ h2hs = <<>>
    /\ nops = 1
    /\ nseasons = 0
    /\ out = None
    /\ frame = NoFrame
    /\ config = ConstructorDefaults(impl)

NewSeasonRegressionAgain == NewSeasonRegressionWithin(MaxSeasons + 1)

NextSeasons == SimulateRace \/ ApplyAllDeltas \/ NewSeasonRegressionAgain

SpecSeasons == InitSeasons /\ [][NextSeasons]_vars

\* the positions of a race history that hold an entry equal (Race.__eq__) to an
\* earlier one
RepeatedEntries(race_history) ==
    {k \in 1..Len(race_history) :
        \E m \in 1..(k - 1) : RaceEq(race_history[m], race_history[k])}

\* C21: no rider's race_history ever holds two entries that are equal under
\* Race equality (same name and same date).
C21_RaceHistoryHasNoEqualEntries ==
    \A name \in Known : RepeatedEntries(riders[name].race_history) = {}

(***************************************************************************)
(* utils.py and RaceSelection.py: elo_driver and what it calls.  A table   *)
(* of results is a sequence of rows; a row carries the columns the driver  *)
(* and simulate_race read.                                                 *)
(***************************************************************************)
WORLD_OLYMPICS_ITT_NAMES ==
    {"world-championship-itt", "olympic-games-itt",
     "world-championship-itt-we", "olympic-games-we-itt"}
PERMITTED_TT_LENGTH_KWDS ==
    {Some("prologue"), Some("mid-length"), Some("long"), Some("none"), None}
PERMITTED_ITT_VERT_KWDS == {Some("flat"), Some("hilly"), Some("none"), None}
FR_MAX == 1
MID_LENGTH_DEFAULT_RANGE == <<20, 35>>
LONG_TT_DEFAULT_RANGE == <<45, 55>>
PROLOGUE_DEFAULT_RANGE == <<7, 11>>
FLAT_TT_DEFAULT_RANGE == <<0, 15>>
HILLY_TT_DEFAULT_RANGE == <<20, 80>>
NEW_SEASON_REGRESSION_DEFAULT == RegDen \div 2    \* regression_to_mean_weight = 0.5
PRINT_MAX_PLACES_DEFAULT == 50

\* x ** E with E = 0.3, in 1/WeightDen, for the distances the inputs produce
PowE(x) ==
    IF x = 10 THEN 200 ELSE IF x = 15 THEN 225 ELSE IF x = 39 THEN 300 ELSE ToF(1)

Max(x, y) == IF x >= y THEN x ELSE y

\* _weight_adjustment_helper(rnge, val), in 1/WeightDen
WeightAdjustmentHelper(rnge, val) ==
    IF val < rnge[1] THEN FDiv(ToF(1), Max(ToF(FR_MAX), PowE(rnge[1] - val)))
    ELSE IF val > rnge[2] THEN FDiv(ToF(1), Max(ToF(FR_MAX), PowE(val - rnge[2])))
    ELSE ToF(1)

\* weight_itt_by_type(race_data, tt_cats, initial_k): what it raises, and the
\* adjusted weight in 1/WeightDen
WeightIttByType(race_data, tt_cats, initial_k) ==
    LET tt_length == race_data[1].length
        tt_vert == race_data[1].vertical_meters \div tt_length
        byLength == IF tt_cats[1] = Some("prologue")
                    THEN WeightAdjustmentHelper(PROLOGUE_DEFAULT_RANGE, tt_length)
                    ELSE IF tt_cats[1] = Some("mid-length")
                    THEN WeightAdjustmentHelper(MID_LENGTH_DEFAULT_RANGE, tt_length)
                    ELSE IF tt_cats[1] = Some("long")
                    THEN WeightAdjustmentHelper(LONG_TT_DEFAULT_RANGE, tt_length)
                    ELSE ToF(1)
        byVert == IF tt_cats[2] = Some("flat")
                  THEN WeightAdjustmentHelper(FLAT_TT_DEFAULT_RANGE, tt_vert)
                  ELSE IF tt_cats[2] = Some("hilly")
                  THEN WeightAdjustmentHelper(HILLY_TT_DEFAULT_RANGE, tt_vert)
                  ELSE ToF(1)
    IN  IF tt_cats[1] \notin PERMITTED_TT_LENGTH_KWDS \/ tt_cats[2] \notin PERMITTED_ITT_VERT_KWDS
        THEN [err |-> "ValueError", adjusted_k |-> ToF(initial_k)]
        ELSE [err |-> "none", adjusted_k |-> FMul(FMul(ToF(initial_k), byLength), byVert)]

\* the key sort_values(by = ['month', 'day']) orders by
MonthDayLE(r1, r2) == r1.month < r2.month \/ (r1.month = r2.month /\ r1.day <= r2.day)

\* the rows in a table already sorted, with one more row put after every row
\* that does not come after it (the sort on several columns is stable)
RECURSIVE InsertRow(_, _)
InsertRow(sorted, row) ==
    IF sorted = <<>> THEN <<row>>
    ELSE IF MonthDayLE(sorted[Len(sorted)], row) THEN Append(sorted, row)
    ELSE Append(InsertRow(SubSeq(sorted, 1, Len(sorted) - 1), row), sorted[Len(sorted)])

RECURSIVE SortValues(_)
SortValues(rows) ==
    IF rows = <<>> THEN <<>>
    ELSE InsertRow(SortValues(SubSeq(rows, 1, Len(rows) - 1)), rows[Len(rows)])

\* prepare_year_data(data, year, race_type), sort = True
PrepareYearData(data, year, race_type) ==
    LET year_data == SelectSeq(data, LAMBDA row : row.year = year)
        worlds_olympics_itts ==
            SelectSeq(year_data, LAMBDA row : row.name \in WORLD_OLYMPICS_ITT_NAMES)
        typed == IF race_type = "itt"
                 THEN SelectSeq(year_data, LAMBDA row : row.type \in {"itt", "prologue"})
                      \o worlds_olympics_itts
                 ELSE SelectSeq(year_data, LAMBDA row : row.type = race_type)
    IN  SortValues(typed)

\* Series.unique(): the values of a column in the order of first appearance
RECURSIVE Unique(_)
Unique(values) ==
    IF values = <<>> THEN <<>>
    ELSE LET before == Unique(SubSeq(values, 1, Len(values) - 1))
             last == values[Len(values)]
         IN  IF \E k \in 1..Len(before) : before[k] = last
             THEN before
             ELSE Append(before, last)

Column(rows, col) == [k \in 1..Len(rows) |-> rows[k][col]]

\* the rows before the first row whose place is lower than the row before it
CutAtFirstDrop(rows) ==
    LET drops == {j \in 2..Len(rows) : rows[j].place < rows[j - 1].place}
    IN  IF drops = {} THEN rows
        ELSE SubSeq(rows, 1, (CHOOSE j \in drops : \A m \in drops : j <= m) - 1)

\* a version of remove_banned_riders that drops the later row of two equal places
RemoveBannedRidersKeepsFirst(df) ==
    LET to_drop == {i \in 2..Len(df) : df[i].place = df[i - 1].place}
        kept == {i \in 1..Len(df) : i \notin to_drop}
    IN  [k \in 1..Cardinality(kept) |->
            df[CHOOSE i \in kept : Cardinality({m \in kept : m <= i}) = k]]

\* remove_banned_riders(df): a row is dropped when the next row has its place
RemoveBannedRiders(df) ==
    LET to_drop == {i - 1 : i \in {i \in 2..Len(df) : df[i].place = df[i - 1].place}}
        kept == {i \in 1..Len(df) : i \notin to_drop}
    IN  [k \in 1..Cardinality(kept) |->
            df[CHOOSE i \in kept : Cardinality({m \in kept : m <= i}) = k]]

\* prepare_race_data(data, race): the stage tables of one race
PrepareRaceData(data, race) ==
    LET race_data == SelectSeq(data, LAMBDA row : row.name = race)
        stages == Unique(Column(race_data, "stage"))
        stages_data ==
            IF Len(stages) > 1
            THEN [k \in 1..Len(stages) |->
                     SelectSeq(race_data, LAMBDA row : row.stage = stages[k])]
            ELSE <<race_data>>
    IN  [i \in 1..Len(stages_data) |-> RemoveBannedRiders(CutAtFirstDrop(stages_data[i]))]

\* the stage tables of a year in the order the two loops of elo_driver visit them
RECURSIVE StagesOfRaces(_, _)
StagesOfRaces(year_data, races_of_year) ==
    IF races_of_year = <<>> THEN <<>>
    ELSE PrepareRaceData(year_data, races_of_year[1])
         \o StagesOfRaces(year_data, SubSeq(races_of_year, 2, Len(races_of_year)))

StagesOfYear(year_data) == StagesOfRaces(year_data, Unique(Column(year_data, "name")))

\* get_race_date(race_data)
GetRaceDate(race_data) == <<race_data[1].year, race_data[1].month, race_data[1].day>>

\* str.strip() of a points scale, kept as its text and the blanks around it
Strip(points_scale) == points_scale.text

\* the race weight elo_driver finds for a stage: None where the stage is skipped
\* (a points scale that is nan, a float, is None here)
LookupRaceWeight(stage_data, year, race_type, race_classes, race_weights) ==
    LET race == stage_data[1].name
        points_scale == stage_data[1].points_scale
    IN  IF race_type = "gc"
        THEN IF year \in DOMAIN race_weights /\ race \in DOMAIN race_weights[year]
             THEN Some(race_classes[race_weights[year][race]])
             ELSE None
        ELSE IF points_scale = None \/ Strip(points_scale[1]) \notin DOMAIN race_weights
             THEN None
             ELSE Some(race_weights[Strip(points_scale[1])])

\* the end of the loop body, after simulate_race and apply_all_deltas returned:
\* print_system when verbose, save_system when save_results
DriverStageEnd(applied, raced, saved, sim_h2hs, stage_date, year, a, rd) ==
    LET printed_err ==
            IF a.verbose
            THEN PrintSystemResult(applied, year, InitialRating,
                                   PRINT_MAX_PLACES_DEFAULT).err
            ELSE "none"
    IN  IF printed_err # "none"
        THEN [riders |-> applied, races |-> raced, rating_data |-> rd,
              eval_results |-> saved, h2hs |-> sim_h2hs, err |-> printed_err]
        ELSE [riders |-> applied, races |-> raced,
              rating_data |-> IF a.save_results THEN SaveSystem(rd, applied, stage_date)
                              ELSE rd,
              eval_results |-> saved, h2hs |-> sim_h2hs, err |-> "none"]

\* the loop body from the eval_results entry on, for a stage with its weight
DriverStageRun(stage_data, race_weight, year, a, rs, rcs, rd, eval_results) ==
    LET race == stage_data[1].name
        stage_date == GetRaceDate(stage_data)
        saved == Append(eval_results,
                        [race |-> race, year |-> year, stage |-> stage_data[1].stage,
                         date |-> stage_date, actual |-> Column(stage_data, "rider")])
        raced == Append(rcs, MakeRace(race, Some(race_weight), stage_date, None))
    IN  CHOOSE res \in
            UNION {{IF sim.err # "none"
                    THEN [riders |-> sim.riders, races |-> raced, rating_data |-> rd,
                          eval_results |-> saved, h2hs |-> sim.h2hs, err |-> sim.err]
                    ELSE DriverStageEnd(applied, raced, saved, sim.h2hs, stage_date,
                                        year, a, rd) :
                       applied \in {ApplyAllDeltasResult(sim.riders, stage_date)}} :
                   sim \in {SimulateRaceResult(rs, stage_data, race, race_weight,
                                               a.timegap_multiplier)}} : TRUE

\* one pass through the body of the loop over stages: the system and eval_results
\* after it, and what it raised
DriverStageResult(stage_data, year, a, rs, rcs, rd, eval_results) ==
    LET skipped == [riders |-> rs, races |-> rcs, rating_data |-> rd,
                    eval_results |-> eval_results, h2hs |-> <<>>, err |-> "none"]
        found == LookupRaceWeight(stage_data, year, a.race_type, a.race_classes,
                                  a.race_weights)
        itt == WeightIttByType(stage_data,
                               <<a.given_tt_length_adjustor, a.given_tt_vert_adjustor>>,
                               found[1])
    IN  IF found = None THEN skipped
        ELSE IF a.race_type # "itt"
        THEN DriverStageRun(stage_data, found[1], year, a, rs, rcs, rd, eval_results)
        ELSE IF itt.err # "none"
        THEN [skipped EXCEPT !.err = itt.err]
        ELSE DriverStageRun(stage_data, itt.adjusted_k \div WeightDen, year, a, rs, rcs,
                            rd, eval_results)

(***************************************************************************)
(* Inputs of elo_driver: a results file made of a few stages, the weight   *)
(* tables, the time-trial keywords.                                        *)
(***************************************************************************)
MaxStages == 3

MakeStage(name, stage, type, points_scale, length, d, names, places) ==
    [k \in 1..Len(names) |->
        [name |-> name, stage |-> stage, type |-> type, points_scale |-> points_scale,
         length |-> length, vertical_meters |-> 10 * length,
         year |-> d[1], month |-> d[2], day |-> d[3],
         place |-> places[k], rider |-> names[k], age |-> AgeOf(names[k]),
         time |-> Some(10 * (k - 1))]]

UWT == Some([text |-> "2.UWT", blanks |-> 0])

StagePool ==
    << MakeStage("tour", "stage-1", "itt", UWT, 50, <<2021, 7, 1>>, <<"a">>, <<1>>),
       MakeStage("tour", "stage-20", "itt", Some([text |-> "2.UWT", blanks |-> 1]), 30,
                 <<2021, 7, 20>>, <<"b">>, <<1>>),
       MakeStage("wallonie", "stage-3", "itt", UWT, 50, <<2021, 7, 10>>, <<"c">>, <<1>>),
       MakeStage("suisse", "stage-1", "itt", UWT, 50, <<2021, 6, 12>>,
                 <<"a", "b">>, <<1, 2>>),
       MakeStage("romandie", "prologue", "prologue", Some([text |-> "2.Pro", blanks |-> 0]),
                 30, <<2021, 4, 26>>, <<"a">>, <<1>>),
       MakeStage("burgos", "stage-2", "itt", None, 50, <<2021, 8, 5>>, <<"a">>, <<1>>),
       MakeStage("tour", "gc", "gc", UWT, 50, <<2021, 7, 23>>, <<"a">>, <<1>>),
       MakeStage("dauphine", "gc", "gc", UWT, 50, <<2021, 6, 12>>, <<"b">>, <<1>>),
       MakeStage("tour", "stage-1", "itt", UWT, 50, <<2022, 7, 1>>, <<"a">>, <<1>>) >>

RECURSIVE Concat(_)
Concat(tables) ==
    IF tables = <<>> THEN <<>> ELSE tables[1] \o Concat(SubSeq(tables, 2, Len(tables)))

Reverse(q) == [k \in 1..Len(q) |-> q[Len(q) + 1 - k]]

\* the stages picked from the pool, as a sequence in pool order
Picked(chosen) == SelectSeq(StagePool, LAMBDA stage : \E k \in chosen : StagePool[k] = stage)

\* results files: up to MaxStages stages of the pool, in date order of the file or
\* in the opposite order
Datasets ==
    UNION {{Concat(Picked(chosen)), Concat(Reverse(Picked(chosen)))} :
              chosen \in {c \in SUBSET (1..Len(StagePool)) :
                             c # {} /\ Cardinality(c) <= MaxStages}}

PointsWeights == ("2.UWT" :> 100)
GcRaceWeights == (2021 :> ("tour" :> 0))
RaceClasses == (0 :> 100)

TTCats ==
    { <<None, None>>, <<Some("long"), None>>, <<Some("mid-length"), Some("hilly")>>,
      <<Some("sprint"), None>>, <<None, Some("steep")>> }
DriverFlags ==
    { [verbose |-> TRUE, save_results |-> FALSE],
      [verbose |-> FALSE, save_results |-> TRUE] }
BegYear == 2021
EndYears == {BegYear + 1, BegYear + 2}

DriverArgs ==
    {[data_main |-> data_main, race_type |-> race_type,
      race_classes |-> RaceClasses,
      race_weights |-> IF race_type = "gc" THEN GcRaceWeights ELSE PointsWeights,
      beg_year |-> BegYear, end_year |-> end_year,
      timegap_multiplier |-> timegap_multiplier,
      given_tt_length_adjustor |-> tt_cats[1], given_tt_vert_adjustor |-> tt_cats[2],
      verbose |-> flags.verbose, save_results |-> flags.save_results] :
        data_main \in Datasets, race_type \in {"gc", "itt"}, end_year \in EndYears,
        timegap_multiplier \in Multipliers, tt_cats \in TTCats, flags \in DriverFlags}

(***************************************************************************)
(* elo_driver as a process: frame.pc is its position, out[1] is            *)
(* eval_results (an entry is saved just before each simulate_race).        *)
(***************************************************************************)
InitDriver ==
    /\ impl = "Velo"
    /\ riders = <<>>
    /\ races = <<>>
    /\ rating_data = [year |-> <<>>, month |-> <<>>, day |-> <<>>, series |-> <<>>]
    /\ op = "init"
    /\ args = <<>>
    /\ err = "none"
    /\ h2hs = <<>>
    /\ nops = 0
    /\ nseasons = 0
    /\ out = None
    /\ frame = NoFrame
    /\ config = ConstructorDefaults(impl)

\* the call, up to the head of the loop over years
EloDriverCall ==
    /\ frame.pc = "none"
    /\ op = "init"
    /\ \E a \in DriverArgs : args' = a
    /\ op' = "elo_driver"
    /\ out' = Some(<<>>)
    /\ frame' = [pc |-> "year", year |-> BegYear]
    /\ UNCHANGED <<impl, riders, races, rating_data, err, h2hs, nops, nseasons, config>>

\* for year in range(beg_year, end_year): prepare_year_data, and the stage
\* tables of every race of the year
EloDriverYear ==
    /\ frame.pc = "year"
    /\ LET year_data == PrepareYearData(args.data_main, frame.year, args.race_type)
       IN  frame' = IF frame.year >= args.end_year
                    THEN [pc |-> "done"]
                    ELSE IF Len(year_data) = 0
                    THEN [pc |-> "year", year |-> frame.year + 1]
                    ELSE [pc |-> "stage", year |-> frame.year,
                          stages |-> StagesOfYear(year_data), k |-> 1]
    /\ UNCHANGED <<impl, riders, races, rating_data, op, args, err, h2hs, nops,
                   nseasons, out, config>>

\* the body of the loop over stages, for the next stage table
EloDriverStage ==
    /\ frame.pc = "stage"
    /\ frame.k <= Len(frame.stages)
    /\ \E res \in {DriverStageResult(frame.stages[frame.k], frame.year, args, riders,
                                      races, rating_data, out[1])} :
           /\ riders' = res.riders
           /\ races' = res.races
           /\ rating_data' = res.rating_data
           /\ out' = Some(res.eval_results)
           /\ h2hs' = res.h2hs
           /\ err' = res.err
           /\ frame' = IF res.err # "none"
                       THEN [frame EXCEPT !.pc = "raised"]
                       ELSE [frame EXCEPT !.k = @ + 1]
    /\ UNCHANGED <<impl, op, args, nops, nseasons, config>>

\* after the last stage of a year: new_season_regression(year) unless the year is
\* the last one, then the next year
EloDriverSeason ==
    /\ frame.pc = "stage"
    /\ frame.k > Len(frame.stages)
    /\ LET res == NewSeasonRegressionResult(riders, rating_data, frame.year,
                                            NEW_SEASON_REGRESSION_DEFAULT)
       IN  IF frame.year < args.end_year - 1
           THEN /\ races' = Append(races, MakeRace("New Season", None, None, None))
                /\ riders' = res.riders
                /\ rating_data' = res.rating_data
                /\ err' = res.err
                /\ frame' = IF res.err # "none"
                            THEN [frame EXCEPT !.pc = "raised"]
                            ELSE [pc |-> "year", year |-> frame.year + 1]
           ELSE /\ frame' = [pc |-> "year", year |-> frame.year + 1]
                /\ UNCHANGED <<riders, races, rating_data, err>>
    /\ UNCHANGED <<impl, op, args, h2hs, nops, nseasons, out, config>>

NextDriver == EloDriverCall \/ EloDriverYear \/ EloDriverStage \/ EloDriverSeason

SpecDriver == InitDriver /\ [][NextDriver]_vars

\* the stage table the driver is about to process
AtStage == frame.pc = "stage" /\ frame.k <= Len(frame.stages)
CurrentStage == frame.stages[frame.k]

\* the configuration faults of the claim: no weight for the event in the weight
\* table, or a time-trial keyword that is not permitted
NotInWeightTable ==
    LookupRaceWeight(CurrentStage, frame.year, args.race_type, args.race_classes,
                     args.race_weights) = None
KeywordNotPermitted ==
    /\ args.race_type = "itt"
    /\ \/ args.given_tt_length_adjustor \notin PERMITTED_TT_LENGTH_KWDS
       \/ args.given_tt_vert_adjustor \notin PERMITTED_ITT_VERT_KWDS

\* C22: in elo_driver an event with a configuration fault (not in the weight
\* table, or a time-trial keyword that is not permitted) is skipped: nothing is
\* simulated or applied, the rating state and eval_results stay as they are, and
\* the driver goes on with the next event.
C22_ConfigurationFaultSkipsEvent ==
    [][(AtStage /\ (NotInWeightTable \/ KeywordNotPermitted))
          => /\ frame' = [frame EXCEPT !.k = @ + 1]
             /\ UNCHANGED <<riders, races, rating_data, out, err>>]_vars

DateLE(d1, d2) ==
    \/ d1[1] < d2[1]
    \/ d1[1] = d2[1] /\ d1[2] < d2[2]
    \/ d1[1] = d2[1] /\ d1[2] = d2[2] /\ d1[3] <= d2[3]

\* C23: the simulate_race calls elo_driver issues, one per entry of
\* eval_results, are in non-decreasing date order.
C23_EventsFedInDateOrder ==
    op = "elo_driver" =>
        \A k \in 1..(Len(out[1]) - 1) : DateLE(out[1][k].date, out[1][k + 1].date)

(***************************************************************************)
(* VGlicko.py: compute_g, compute_E, compute_v, compute_delta and the sum  *)
(* of new_rating_rd, on the Glicko-2 scale in units of 1/VDen.  g2_ratings *)
(* maps a rider to its snapshot (mu, phi, volatility, place).              *)
(***************************************************************************)
PLACE_DIFF_CONSTANT == 50
PiSquared == (9870 * VDen) \div 1000

\* 1 / sqrt(1 + 3 * phi ** 2 / pi ** 2)
ComputeG(phi) ==
    VDiv(VDen, ISqrt((VDen + VDiv(3 * VMul(phi, phi), PiSquared)) * VDen))

\* 1 / (1 + exp(-g(phi_j) * (mu - mu_j)))
ComputeE(mu, mu_j, phi_j) ==
    VDiv(VDen, VDen + Exp(0 - VMul(ComputeG(phi_j), mu - mu_j)))

\* the keys of g2_ratings in insertion order, without the rider itself and
\* without the riders more than PLACE_DIFF_CONSTANT places away
Opponents(g2_ratings, rider) ==
    SelectSeq(<<"a", "b", "c">>,
              LAMBDA other :
                  /\ other \in DOMAIN g2_ratings
                  /\ other # rider
                  /\ Abs(g2_ratings[rider].place - g2_ratings[other].place)
                        <= PLACE_DIFF_CONSTANT)

RECURSIVE SumSeq(_)
SumSeq(terms) ==
    IF terms = <<>> THEN 0 ELSE terms[1] + SumSeq(SubSeq(terms, 2, Len(terms)))

\* s_j: 1 for a better place than the opponent's, else 0
GlickoScore(g2_ratings, rider, other) ==
    IF g2_ratings[rider].place < g2_ratings[other].place THEN VDen ELSE 0

\* g(phi_j) * (s_j - E) for one opponent
OutcomeTerm(g2_ratings, rider, other) ==
    VMul(ComputeG(g2_ratings[other].phi),
         GlickoScore(g2_ratings, rider, other)
            - ComputeE(g2_ratings[rider].mu, g2_ratings[other].mu, g2_ratings[other].phi))

\* compute_v(g2_ratings, rider): 1 / sigma, which raises when the sum is the
\* integer 0 it started as
ComputeV(g2_ratings, rider) ==
    LET others == Opponents(g2_ratings, rider)
        sigma == SumSeq([k \in 1..Len(others) |->
                    LET g == ComputeG(g2_ratings[others[k]].phi)
                        E == ComputeE(g2_ratings[rider].mu, g2_ratings[others[k]].mu,
                                      g2_ratings[others[k]].phi)
                    IN  VMul(VMul(g, g), VMul(E, VDen - E))])
    IN  IF sigma = 0
        THEN [err |-> "ZeroDivisionError", v |-> 0]
        ELSE [err |-> "none", v |-> VDiv(VDen, sigma)]

\* compute_delta(g2_ratings, g2_v, rider)
ComputeDelta(g2_ratings, g2_v, rider) ==
    LET others == Opponents(g2_ratings, rider)
    IN  VMul(g2_v[rider],
             SumSeq([k \in 1..Len(others) |-> OutcomeTerm(g2_ratings, rider, others[k])]))

\* the sum `sigma` of new_rating_rd(g2_ratings, g2_v, new_vols, matchup_weights,
\* rider), which multiplies new_phi ** 2 in the new mu
NewRatingSigma(g2_ratings, matchup_weights, rider) ==
    LET others == Opponents(g2_ratings, rider)
    IN  SumSeq([k \in 1..Len(others) |->
                   VMul(matchup_weights[<<rider, others[k]>>],
                        OutcomeTerm(g2_ratings, rider, others[k]))])

(***************************************************************************)
(* A specification of the static methods: a snapshot of one to three       *)
(* riders and the matchup weights of their pairs, then compute_v and       *)
(* compute_delta for a rider of the snapshot.                              *)
(***************************************************************************)
SnapshotNames == {<<"a">>, <<"a", "b">>, <<"a", "b", "c">>}
SnapshotPlaces == {<<1, 2, 3>>, <<1, 1, 2>>, <<2, 1, 60>>, <<1, 60, 120>>}
SnapshotMus == {<<0, 0, 0>>, <<VDen, 0, 0>>, <<0, 0 - VDen, 0>>, <<VDen, 0 - VDen, 0>>}
SnapshotPhis == {<<VDen, VDen, 2 * VDen>>, <<2 * VDen, VDen, 2 * VDen>>,
                 <<VDen, 2 * VDen, 2 * VDen>>}
PairWeights == {VDen \div 2, VDen, 2 * VDen}

Snapshots ==
    {[name \in {names[k] : k \in 1..Len(names)} |->
         LET k == CHOOSE k \in 1..Len(names) : names[k] = name
         IN  [mu |-> mus[k], phi |-> phis[k], volatility |-> VDen \div 16,
              place |-> places[k]]] :
        names \in SnapshotNames, places \in SnapshotPlaces, mus \in SnapshotMus,
        phis \in SnapshotPhis}

\* matchup_weights[(rider1, rider2)] = matchup_weights[(rider2, rider1)]
MatchupWeights(names) ==
    {[pair \in {<<r1, r2>> : r1 \in names, r2 \in names} |->
         IF pair[1] = pair[2] THEN 0
         ELSE IF "a" \in {pair[1], pair[2]} THEN wa ELSE wb] :
        wa \in PairWeights, wb \in PairWeights}

InitStatics ==
    /\ impl = "VGlicko"
    /\ riders = <<>>
    /\ races = <<>>
    /\ rating_data = [year |-> <<>>, month |-> <<>>, day |-> <<>>, series |-> <<>>]
    /\ op = "init"
    /\ \E g2_ratings \in Snapshots :
          \E matchup_weights \in MatchupWeights(DOMAIN g2_ratings) :
             args = [g2_ratings |-> g2_ratings, matchup_weights |-> matchup_weights]
    /\ err = "none"
    /\ h2hs = <<>>
    /\ nops = 0
    /\ nseasons = 0
    /\ out = None
    /\ frame = NoFrame
    /\ config = ConstructorDefaults(impl)

ComputeVCall ==
    /\ \E rider \in DOMAIN args.g2_ratings :
          \E res \in {ComputeV(args.g2_ratings, rider)} :
             /\ err' = res.err
             /\ out' = IF res.err = "none" THEN Some(res.v) ELSE None
             /\ frame' = [pc |-> "returned", rider |-> rider]
    /\ op' = "compute_v"
    /\ UNCHANGED <<impl, riders, races, rating_data, args, h2hs, nops, nseasons, config>>

\* compute_delta for a rider, with the g2_v that compute_v gave
ComputeDeltaCall ==
    /\ \E rider \in DOMAIN args.g2_ratings :
          \E res \in {ComputeV(args.g2_ratings, rider)} :
             /\ res.err = "none"
             /\ out' = Some(ComputeDelta(args.g2_ratings, (rider :> res.v), rider))
             /\ frame' = [pc |-> "returned", rider |-> rider, v |-> res.v]
    /\ op' = "compute_delta"
    /\ err' = "none"
    /\ UNCHANGED <<impl, riders, races, rating_data, args, h2hs, nops, nseasons, config>>

NextStatics == ComputeVCall \/ ComputeDeltaCall

SpecStatics == InitStatics /\ [][NextStatics]_vars

\* C24: the Delta that compute_delta returns for a rider is v times the sum that
\* new_rating_rd forms for it: the sum over its eligible opponents of
\* matchup_weight * g(phi_j) * (score_j - E_j).
C24_DeltaUsesMatchupWeight ==
    op = "compute_delta" =>
        out[1] = VMul(frame.v,
                      NewRatingSigma(args.g2_ratings, args.matchup_weights, frame.rider))

\* C29: compute_v returns a variance for every rider of a snapshot: the sum it
\* inverts is never zero, also for a rider with no opponent within
\* PLACE_DIFF_CONSTANT places, so no division by zero is raised.
C29_VarianceAlwaysDefined ==
    op = "compute_v" => (err = "none" /\ out # None)

(***************************************************************************)
(* The calls of the decay-weighting function.  simulate_race of Velo and    *)
(* of CyclElo calls k_func once per pair it does not skip, and the call is  *)
(* what h2hs records; VGlicko.simulate_race raises on reading self.k_decay  *)
(* before the function is entered, for positions i + 1 < j + 1.             *)
(***************************************************************************)
\* C25: every call of the weight function that simulate_race makes has a first
\* place strictly lower than the second place: no pair with p1 >= p2 reaches
\* the function.
C25_WeightOnlyForBetterPlace ==
    op = "simulate_race" =>
        \A k \in 1..Len(h2hs) :
            /\ h2hs[k].rider1_place = args.results[h2hs[k].i].place
            /\ h2hs[k].rider2_place = args.results[h2hs[k].j].place
            /\ h2hs[k].matchup_weight =
                   KFunc(args.race_weight, h2hs[k].rider1_place, h2hs[k].rider2_place)
            /\ h2hs[k].rider1_place < h2hs[k].rider2_place

\* CyclElo's full ranges visit a tie and a pair in the reverse order of the rows,
\* and the weight function was called for the pair the other way round
C25_Witness ==
    /\ op = "simulate_race"
    /\ impl = "CyclElo"
    /\ \E i, j \in 1..Len(args.results) :
          i # j /\ args.results[i].place = args.results[j].place
    /\ \E k \in 1..Len(h2hs) : h2hs[k].i > h2hs[k].j

(***************************************************************************)
(* The rider map across an event.                                          *)
(***************************************************************************)
RowNames(results) == {results[k].rider : k \in 1..Len(results)}

\* C26: no operation removes a rider, and after simulate_race has returned for
\* an event the rider map holds the riders it held before and one rider for
\* every competitor name with a row in the event, a new rider at the initial
\* rating.
C26_EveryCompetitorBecomesRider ==
    [][/\ DOMAIN riders \subseteq DOMAIN riders'
       /\ (op' = "simulate_race" /\ err' = "none") =>
             /\ DOMAIN riders' = DOMAIN riders \cup RowNames(args'.results)
             /\ \A name \in DOMAIN riders' \ DOMAIN riders :
                   riders'[name].rating = InitialRating]_vars

(***************************************************************************)
(* prepare_race_data on its own: the rows of a year for the race "tour" in  *)
(* one or two stages, the places of the rows in any order, after the rows   *)
(* of another race.                                                         *)
(***************************************************************************)
MaxRows == 4
RowRiders == <<"a", "b", "c", "d", "e", "f">>

StageRows(name, stage, places) ==
    MakeStage(name, stage, "road", UWT, 50, <<2021, 7, 1>>,
              SubSeq(RowRiders, 1, Len(places)), places)

PlaceLists(n) == UNION {[1..m -> 1..MaxPlace] : m \in 1..n}

YearTables ==
    LET other == StageRows("suisse", "stage-1", <<1, 2>>)
    IN  {other \o StageRows("tour", "stage-1", places) : places \in PlaceLists(MaxRows)}
        \cup {StageRows("tour", "stage-1", places1) \o StageRows("tour", "stage-2", places2) :
                 places1 \in PlaceLists(MaxRows - 1), places2 \in PlaceLists(2)}

InitPrepare ==
    /\ impl = "Velo"
    /\ riders = <<>>
    /\ races = <<>>
    /\ rating_data = [year |-> <<>>, month |-> <<>>, day |-> <<>>, series |-> <<>>]
    /\ op = "init"
    /\ \E data \in YearTables : args = [data |-> data]
    /\ err = "none"
    /\ h2hs = <<>>
    /\ nops = 0
    /\ nseasons = 0
    /\ out = None
    /\ frame = NoFrame
    /\ config = ConstructorDefaults(impl)

PrepareRaceDataCall ==
    /\ op = "init"
    /\ \E race \in {args.data[k].name : k \in 1..Len(args.data)} :
          /\ out' = Some(PrepareRaceData(args.data, race))
          /\ args' = [data |-> args.data, race |-> race]
    /\ op' = "prepare_race_data"
    /\ UNCHANGED <<impl, riders, races, rating_data, err, h2hs, nops, nseasons, frame, config>>

NextPrepare == PrepareRaceDataCall

SpecPrepare == InitPrepare /\ [][NextPrepare]_vars

\* the rows of the data that belong to the i-th stage table of the race
RowsOfStage(i) ==
    LET race_data == SelectSeq(args.data, LAMBDA row : row.name = args.race)
        stages == Unique(Column(race_data, "stage"))
    IN  SelectSeq(race_data, LAMBDA row : row.stage = stages[i])

\* the length of the longest prefix of the rows whose places never fall
RisingPrefix(rows) ==
    CHOOSE n \in 1..Len(rows) :
        /\ \A k \in 2..n : rows[k].place >= rows[k - 1].place
        /\ n = Len(rows) \/ rows[n + 1].place < rows[n].place

\* the rows of the prefix that are the last of their place
LastOfPlace(rows) ==
    {k \in 1..RisingPrefix(rows) :
        k = RisingPrefix(rows) \/ rows[k + 1].place # rows[k].place}

\* C27: every stage table that prepare_race_data returns has strictly increasing
\* places from each row to the next: it holds the rows before the first row
\* whose place is lower than the previous row's, and of each run of consecutive
\* rows with one place only the last, so that no two rows share a place.
C27_StageTablesStrictlyIncreasing ==
    op = "prepare_race_data" =>
        \A i \in 1..Len(out[1]) :
            LET table == out[1][i]
                rows == RowsOfStage(i)
            IN  /\ \A k \in 1..(Len(table) - 1) : table[k].place < table[k + 1].place
                /\ Len(table) = Cardinality(LastOfPlace(rows))
                /\ \A k \in LastOfPlace(rows) :
                      table[Cardinality({m \in LastOfPlace(rows) : m <= k})] = rows[k]

\* a stage table was cut at its last row, and its first row, on the place of the
\* second, was dropped
C27_Witness ==
    /\ op = "prepare_race_data"
    /\ \E i \in 1..Len(out[1]) :
          /\ Len(RowsOfStage(i)) = MaxRows
          /\ RisingPrefix(RowsOfStage(i)) = MaxRows - 1
          /\ Len(out[1][i]) = MaxRows - 2
          /\ out[1][i][1].rider # "a"

(***************************************************************************)
(* The sum of the ratings of the Elo systems.                              *)
(***************************************************************************)
RECURSIVE SumRatings(_, _)
SumRatings(rs, names) ==
    IF names = {} THEN 0
    ELSE LET name == CHOOSE n \in names : TRUE
         IN  FAdd(rs[name].rating, SumRatings(rs, names \ {name}))

(***************************************************************************)
(* Events with the place 0 of the winner sentinel: from the fresh system,   *)
(* one event whose rows have places from 0 on, and apply_all_deltas.        *)
(***************************************************************************)
ZeroResultsTables ==
    UNION {{MakeResults(names, places, pattern, d) :
                places \in [1..Len(names) -> 0..MaxPlace],
                pattern \in TimePatterns, d \in RaceDates} : names \in RiderLists}

SimulateRaceZero ==
    /\ op = "init"
    /\ SimulateRaceOf(ZeroResultsTables)

NextZero == SimulateRaceZero \/ ApplyAllDeltas

SpecZero == Init /\ [][NextZero]_vars

\* C28: after any sequence of events (simulate_race, then apply_all_deltas) and
\* new_season_regression calls the ratings of the known riders add up to 1500
\* times the number of known riders, in exact arithmetic.
C28_RatingMassConserved ==
    SumRatings(riders, DOMAIN riders) = InitialRating * Cardinality(DOMAIN riders)

\* C30: for rows whose places are non-negative integers, 0 included, every
\* weight that simulate_race computes is well defined: the weight function is
\* never evaluated with 0 as the better place, and no pending delta becomes
\* undefined.
C30_WeightsAndDeltasDefined ==
    op = "simulate_race" =>
        /\ \A k \in 1..Len(h2hs) :
              h2hs[k].rider1_place # 0 /\ IsFinite(h2hs[k].matchup_weight)
        /\ \A name \in DOMAIN riders : IsFinite(riders[name].delta)

====
